---- MODULE Spec2Model ----
(***************************************************************************)
(* A model of the key pool, the request manager (reversible mutation log)  *)
(* and the request queue / response pipeline of the LLM reverse proxy.     *)
(*                                                                         *)
(* Three specifications share the variables:                               *)
(*   SpecKeys   the key providers (get / throttle / markRateLimited /      *)
(*              updateRateLimits / update / disable / getLockoutPeriod)    *)
(*   SpecMgr    ProxyReqManager on one request                             *)
(*   Spec       the queue, the scheduler and the response handlers         *)
(* Time is in milliseconds, as in the source.                              *)
(***************************************************************************)
EXTENDS Integers, Sequences, FiniteSets, TLC

VARIABLES
    now,        \* Date.now()
    config,     \* the configuration snapshot: checkKeys, allowAwsLogging
    keys,       \* key hash -> key record (the providers' this.keys)
    calls,      \* number of key provider calls made so far
    reqs,       \* request id -> the Express request object (and its res)
    queue,      \* the request queue: request ids in array order
    users,      \* user token -> usage counters of the user store
    snapshot,   \* the request as it was before the manager's first mutation
    waitStats,  \* the wait-time estimator: waitTimes, the EMAs, the estimates
    handles,    \* the key record last handed to a caller by get() or list()
    checker     \* the GCP key checker: where its current check stands

keyVars == <<now, config, keys, calls>>

reqVars == <<reqs, queue, users, snapshot, waitStats, handles, checker>>

vars == <<now, config, keys, calls, reqs, queue, users, snapshot, waitStats,
         handles, checker>>

None == "none"

Absent == "undefined"

Max(a, b) == IF a > b THEN a ELSE b
Min(a, b) == IF a < b THEN a ELSE b

(***************************************************************************)
(* Bounds of the model.                                                    *)
(***************************************************************************)
\* the clock stops advancing after MaxClockSteps * 500 ms
MaxClockSteps == 3

\* provider calls explored in SpecKeys
MaxCalls == 3

\* mutations tracked by one manager in SpecMgr
MaxMutations == 3

\* retries of one request explored in Spec
MaxRetries == 1

\* lockout periods that elapse in Spec
MaxWaits == 2

TimeSteps == {500}

Horizon == MaxClockSteps * 500

(***************************************************************************)
(* shared/models.ts                                                        *)
(***************************************************************************)
OpenAIModels == {"gpt-4o-2024-05-13", "gpt-4", "text-embedding-ada-002"}
MistralModels == {"mistral-small-latest", "open-mistral-7b"}
AwsModels == {"anthropic.claude-3-5-sonnet-20240620-v1:0",
              "anthropic.claude-3-opus-20240229-v1:0"}

\* OPENAI_MODEL_FAMILY_MAP applied to the models above; anything else gets
\* the default family.
getOpenAIModelFamily(model) ==
    CASE model = "gpt-4o-2024-05-13" -> "gpt4o"
      [] model = "gpt-4" -> "gpt4"
      [] model = "text-embedding-ada-002" -> "turbo"
      [] OTHER -> "gpt4"

getMistralAIModelFamily(model) ==
    LET prunedModel == IF model = "mistral-small-latest" THEN "mistral-small"
                       ELSE model
    IN CASE prunedModel \in {"mistral-tiny", "mistral-small",
                             "mistral-medium", "mistral-large"} -> prunedModel
         [] prunedModel = "open-mistral-7b" -> "mistral-tiny"
         [] prunedModel = "open-mixtral-8x22b" -> "mistral-medium"
         [] OTHER -> "mistral-small"

getClaudeModelFamily(model) ==
    IF model \in {"anthropic.claude-3-opus-20240229-v1:0",
                  "claude-3-opus-20240229"}
    THEN "claude-opus" ELSE "claude"

getAwsBedrockModelFamily(model) ==
    IF getClaudeModelFamily(model) = "claude-opus"
    THEN "aws-claude-opus" ELSE "aws-claude"

Services == {"openai", "mistral-ai", "aws"}

ModelsOf(service) ==
    CASE service = "openai" -> OpenAIModels
      [] service = "mistral-ai" -> MistralModels
      [] service = "aws" -> AwsModels

FamilyOf(service, model) ==
    CASE service = "openai" -> getOpenAIModelFamily(model)
      [] service = "mistral-ai" -> getMistralAIModelFamily(model)
      [] service = "aws" -> getAwsBedrockModelFamily(model)

OpenAIFamilies == {"turbo", "gpt4", "gpt4-turbo", "gpt4o"}
MistralFamilies == {"mistral-tiny", "mistral-small", "mistral-medium",
                    "mistral-large"}
AwsFamilies == {"aws-claude", "aws-claude-opus"}

\* MODEL_FAMILY_SERVICE
MODEL_FAMILY_SERVICE(family) ==
    CASE family \in OpenAIFamilies -> "openai"
      [] family \in MistralFamilies -> "mistral-ai"
      [] family \in AwsFamilies -> "aws"

FamiliesOf(service) ==
    CASE service = "openai" -> OpenAIFamilies
      [] service = "mistral-ai" -> MistralFamilies
      [] service = "aws" -> AwsFamilies

(***************************************************************************)
(* Key records.  The pool is an array; KeyOrder is its order.              *)
(***************************************************************************)
KeyOrder == <<"aaaaaaaa", "bbbbbbbb">>
KeyIds == {KeyOrder[i] : i \in 1..Len(KeyOrder)}

NewKey(service) ==
    LET base ==
    [ key |-> "secret",
      service |-> service,
      modelFamilies |->
          CASE service = "openai" -> OpenAIFamilies
            [] service = "mistral-ai" -> MistralFamilies
            [] service = "aws" -> {"aws-claude"}
            [] service = "gcp" -> {"gcp-claude"}
            [] service = "google-ai" -> {"gemini-pro"}
            [] OTHER -> {},
      modelIds |->
          IF service = "aws" THEN {"anthropic.claude-3-sonnet-20240229-v1:0"}
          ELSE {},
      inferenceProfileIds |-> {},
      awsLoggingStatus |-> "unknown",
      isTrial |-> FALSE,
      isDisabled |-> FALSE,
      isRevoked |-> FALSE,
      promptCount |-> 0,
      tokens |-> 0,
      lastUsed |-> 0,
      lastChecked |-> 0,
      rateLimitedAt |-> 0,
      rateLimitedUntil |-> 0,
      rateLimitRequestsReset |-> 0,
      rateLimitTokensReset |-> 0 ]
    IN IF service = "gcp"
       THEN base @@ [privateKey |-> Absent, accessToken |-> "",
                     accessTokenExpiresAt |-> 0, sonnetEnabled |-> TRUE,
                     haikuEnabled |-> FALSE, sonnet35Enabled |-> FALSE]
       ELSE base

\* Object.assign(target, patch)
Assign(target, patch) ==
    [f \in DOMAIN target |-> IF f \in DOMAIN patch THEN patch[f] ELSE target[f]]

(***************************************************************************)
(* Per-provider constants.                                                 *)
(***************************************************************************)
OPENAI_KEY_REUSE_DELAY == 1000
MISTRAL_KEY_REUSE_DELAY == 500
MISTRAL_RATE_LIMIT_LOCKOUT == 2000
AWS_KEY_REUSE_DELAY == 250
AWS_RATE_LIMIT_LOCKOUT == 5000
GCP_KEY_REUSE_DELAY == 500
GCP_RATE_LIMIT_LOCKOUT == 4000
GOOGLE_AI_KEY_REUSE_DELAY == 500
GOOGLE_AI_RATE_LIMIT_LOCKOUT == 2000

KEY_REUSE_DELAY(service) ==
    CASE service = "openai" -> OPENAI_KEY_REUSE_DELAY
      [] service = "mistral-ai" -> MISTRAL_KEY_REUSE_DELAY
      [] service = "aws" -> AWS_KEY_REUSE_DELAY
      [] service = "gcp" -> GCP_KEY_REUSE_DELAY
      [] service = "google-ai" -> GOOGLE_AI_KEY_REUSE_DELAY

(***************************************************************************)
(* prioritize-keys.ts: prioritizeKeys.  Array.prototype.sort is a stable   *)
(* sort; the comparator is applied to key records.  ctx carries what the   *)
(* caller's custom comparator closes over (the service and the model).     *)
(***************************************************************************)
BoolToInt(b) == IF b THEN 1 ELSE 0

\* m.includes(part) on the model ids used here
StrIncludes(m, part) ==
    \/ m = part
    \/ /\ m = "anthropic.claude-3-5-sonnet-20240620-v1:0"
       /\ part = "claude-3-5-sonnet-20240620"

\* OpenAI: (a, b) => +a.isTrial - +b.isTrial
\* AWS:    hasInferenceProfile; Mistral passes no comparator
CustomComparator(ctx, a, b) ==
    CASE ctx.service = "openai" -> BoolToInt(a.isTrial) - BoolToInt(b.isTrial)
      [] ctx.service = "aws" ->
            BoolToInt(\E p \in a.inferenceProfileIds : StrIncludes(p, ctx.model))
          - BoolToInt(\E p \in b.inferenceProfileIds : StrIncludes(p, ctx.model))
      [] OTHER -> 0

CompareKeys(ctx, a, b) ==
    LET aRateLimited == now < a.rateLimitedUntil
        bRateLimited == now < b.rateLimitedUntil
    IN IF aRateLimited /\ ~bRateLimited THEN 1
       ELSE IF ~aRateLimited /\ bRateLimited THEN -1
       ELSE IF aRateLimited /\ bRateLimited
            THEN a.rateLimitedUntil - b.rateLimitedUntil
       ELSE IF CustomComparator(ctx, a, b) # 0
            THEN CustomComparator(ctx, a, b)
       ELSE a.lastUsed - b.lastUsed

\* insert hash h into the sorted sequence, after every element that does not
\* compare greater than it (stable)
RECURSIVE InsertKey(_, _, _)
InsertKey(ctx, sorted, h) ==
    IF sorted = <<>> THEN <<h>>
    ELSE IF CompareKeys(ctx, ctx.keys[h], ctx.keys[Head(sorted)]) < 0
         THEN <<h>> \o sorted
         ELSE <<Head(sorted)>> \o InsertKey(ctx, Tail(sorted), h)

RECURSIVE SortKeys(_, _, _)
SortKeys(ctx, todo, sorted) ==
    IF todo = <<>> THEN sorted
    ELSE SortKeys(ctx, Tail(todo), InsertKey(ctx, sorted, Head(todo)))

prioritizeKeys(ctx, hashes) == SortKeys(ctx, hashes, <<>>)

(***************************************************************************)
(* The providers' get(): the filter of each provider.                      *)
(***************************************************************************)
\* the provider's this.keys, within the key map ks
ProviderKeys(ks, service) ==
    LET Mine(h) == ks[h].service = service
    IN SelectSeq(KeyOrder, Mine)

\* faulty variant: the filter forgets the isDisabled test
OpenAIAvailableIgnoringDisabled(k, model) ==
    LET neededFamily == getOpenAIModelFamily(model)
        excludeTrials == model = "text-embedding-ada-002"
    IN /\ neededFamily \in k.modelFamilies
       /\ (~excludeTrials \/ ~k.isTrial)
       /\ (~config.checkKeys \/ model \in k.modelIds)

OpenAIAvailable(k, model) ==
    LET neededFamily == getOpenAIModelFamily(model)
        excludeTrials == model = "text-embedding-ada-002"
    IN /\ ~k.isDisabled
       /\ neededFamily \in k.modelFamilies
       /\ (~excludeTrials \/ ~k.isTrial)
       /\ (~config.checkKeys \/ model \in k.modelIds)

\* MistralAIKeyProvider.get ignores the model
MistralAvailable(k, model) == ~k.isDisabled

AwsAvailable(k, model) ==
    LET neededVariantId == model
        neededFamily == getAwsBedrockModelFamily(model)
    IN /\ ~k.isDisabled
       /\ (config.allowAwsLogging \/ k.awsLoggingStatus # "enabled")
       /\ neededFamily \in k.modelFamilies
       /\ \E m \in k.modelIds : StrIncludes(m, neededVariantId)

IsAvailable(service, k, model) ==
    CASE service = "openai" -> OpenAIAvailable(k, model)
      [] service = "mistral-ai" -> MistralAvailable(k, model)
      [] service = "aws" -> AwsAvailable(k, model)

availableKeys(ks, service, model) ==
    LET Ok(h) == IsAvailable(service, ks[h], model)
    IN SelectSeq(ProviderKeys(ks, service), Ok)

(***************************************************************************)
(* throttle(): Mistral and AWS always throttle; OpenAI skips the throttle  *)
(* when the key is "already naturally rate limited".                       *)
(***************************************************************************)
\* faulty variant: stamps rateLimitedAt but never extends rateLimitedUntil
GenericThrottleNotExtending(k, delay) ==
    [k EXCEPT !.rateLimitedAt = now]

GenericThrottle(k, delay) ==
    LET currentRateLimit == k.rateLimitedUntil
        nextRateLimit == now + delay
    IN [k EXCEPT !.rateLimitedAt = now,
                 !.rateLimitedUntil = Max(currentRateLimit, nextRateLimit)]

OpenAIThrottle(k) ==
    LET currentRateLimit ==
            Max(k.rateLimitRequestsReset, k.rateLimitTokensReset)
            + k.rateLimitedAt
        nextRateLimit == now + OPENAI_KEY_REUSE_DELAY
    IN IF currentRateLimit > nextRateLimit THEN k
       ELSE [k EXCEPT !.rateLimitedAt = now,
                      !.rateLimitRequestsReset = OPENAI_KEY_REUSE_DELAY,
                      !.rateLimitedUntil = now + OPENAI_KEY_REUSE_DELAY]

throttle(service, k) ==
    CASE service = "openai" -> OpenAIThrottle(k)
      [] service = "mistral-ai" -> GenericThrottle(k, MISTRAL_KEY_REUSE_DELAY)
      [] service = "aws" -> GenericThrottle(k, AWS_KEY_REUSE_DELAY)
      [] service = "gcp" -> GenericThrottle(k, GCP_KEY_REUSE_DELAY)
      [] service = "google-ai" ->
            GenericThrottle(k, GOOGLE_AI_KEY_REUSE_DELAY)

\* the hash get(model) selects; None when it throws "no keys available"
selectedKey(ks, service, model) ==
    LET avail == availableKeys(ks, service, model)
    IN IF avail = <<>> THEN None
       ELSE prioritizeKeys([service |-> service, model |-> model,
                            keys |-> ks], avail)[1]

\* the pool after get(model) selected hash h
KeysAfterGet(ks, service, h) ==
    [ks EXCEPT ![h] = throttle(service, [ks[h] EXCEPT !.lastUsed = now])]

(***************************************************************************)
(* markRateLimited, updateRateLimits, update, disable                      *)
(***************************************************************************)
\* faulty variant: stamps rateLimitedAt and leaves rateLimitedUntil alone
markRateLimitedStampingOnly(k) ==
    [k EXCEPT !.rateLimitedAt = now]

markRateLimited(k) ==
    CASE k.service = "openai" ->
            [k EXCEPT !.rateLimitedAt = now,
                      !.rateLimitRequestsReset = 10000,
                      !.rateLimitedUntil = now + 10000]
      [] k.service = "mistral-ai" ->
            [k EXCEPT !.rateLimitedAt = now,
                      !.rateLimitedUntil = now + MISTRAL_RATE_LIMIT_LOCKOUT]
      [] k.service = "aws" ->
            [k EXCEPT !.rateLimitedAt = now,
                      !.rateLimitedUntil = now + AWS_RATE_LIMIT_LOCKOUT]
      [] k.service = "gcp" ->
            [k EXCEPT !.rateLimitedAt = now,
                      !.rateLimitedUntil = now + GCP_RATE_LIMIT_LOCKOUT]
      [] k.service = "google-ai" ->
            [k EXCEPT !.rateLimitedAt = now,
                      !.rateLimitedUntil = now + GOOGLE_AI_RATE_LIMIT_LOCKOUT]

\* A reset header "<m>m<s>s<ms>ms" is held as its three parsed groups;
\* present is FALSE when the upstream response does not carry the header.
getResetDurationMillis(h) == h.minutes * 60 * 1000 + h.seconds * 1000 + h.millis

\* OpenAIKeyProvider.updateRateLimits
updateRateLimits(k, requestsReset, tokensReset) ==
    LET k1 == IF requestsReset.present
              THEN [k EXCEPT !.rateLimitRequestsReset =
                                 getResetDurationMillis(requestsReset)]
              ELSE k
        k2 == IF tokensReset.present
              THEN [k1 EXCEPT !.rateLimitTokensReset =
                                  getResetDurationMillis(tokensReset)]
              ELSE k1
        rateLimitedUntil ==
            k2.rateLimitedAt
            + Max(k2.rateLimitRequestsReset, k2.rateLimitTokensReset)
    IN IF ~requestsReset.present /\ ~tokensReset.present THEN k2
       ELSE IF rateLimitedUntil > now
            THEN [k2 EXCEPT !.rateLimitedUntil = rateLimitedUntil]
            ELSE k2

\* update(hash, patch): Object.assign(key, { lastChecked: Date.now(), ...patch })
update(k, patch) ==
    Assign(Assign(k, [lastChecked |-> now]), patch)

\* faulty variant: no early return for a key that is already disabled
disableWithoutGuard(k) ==
    IF k.service = "openai" THEN update(k, [isDisabled |-> TRUE])
    ELSE [k EXCEPT !.isDisabled = TRUE]

\* disable(key): OpenAI goes through update(), the others set the flag
disable(k) ==
    IF k.isDisabled THEN k
    ELSE IF k.service = "openai" THEN update(k, [isDisabled |-> TRUE])
    ELSE [k EXCEPT !.isDisabled = TRUE]

(***************************************************************************)
(* getLockoutPeriod                                                        *)
(***************************************************************************)
SetMin(S) == CHOOSE x \in S : \A y \in S : x <= y

activeKeys(service, family) ==
    {h \in KeyIds : /\ keys[h].service = service
                    /\ ~keys[h].isDisabled
                    /\ family \in keys[h].modelFamilies}

\* faulty variant: compares the clock with rateLimitedAt, not rateLimitedUntil
GenericGetLockoutPeriodByLimitedAt(service, family) ==
    LET active == activeKeys(service, family)
        rateLimitedKeys == {h \in active : now < keys[h].rateLimitedAt}
        anyNotRateLimited == Cardinality(rateLimitedKeys) < Cardinality(active)
    IN IF active = {} THEN 0
       ELSE IF anyNotRateLimited THEN 0
       ELSE SetMin({keys[h].rateLimitedUntil - now : h \in active})

\* createGenericGetLockoutPeriod (Mistral, AWS)
GenericGetLockoutPeriod(service, family) ==
    LET active == activeKeys(service, family)
        rateLimitedKeys == {h \in active : now < keys[h].rateLimitedUntil}
        anyNotRateLimited == Cardinality(rateLimitedKeys) < Cardinality(active)
    IN IF active = {} THEN 0
       ELSE IF anyNotRateLimited THEN 0
       ELSE SetMin({keys[h].rateLimitedUntil - now : h \in active})

OpenAIResetAt(k) ==
    k.rateLimitedAt
    + Min(20000, Max(k.rateLimitRequestsReset, k.rateLimitTokensReset))

OpenAIGetLockoutPeriod(family) ==
    LET active == activeKeys("openai", family)
        rateLimitedKeys == {h \in active : now < OpenAIResetAt(keys[h])}
        anyNotRateLimited == Cardinality(rateLimitedKeys) < Cardinality(active)
    IN IF active = {} THEN 0
       ELSE IF anyNotRateLimited THEN 0
       ELSE SetMin({OpenAIResetAt(keys[h]) - now : h \in active})

getLockoutPeriod(service, family) ==
    IF service = "openai" THEN OpenAIGetLockoutPeriod(family)
    ELSE GenericGetLockoutPeriod(service, family)

(***************************************************************************)
(* Requests and the ProxyReqManager.  A request's url is held as its       *)
(* pathname and its query string (req.path is the pathname alone); headers *)
(* are keyed by lower-case name.                                           *)
(***************************************************************************)
Reqs == {"r1", "r2", "r3", "r4"}

HeaderNames == {"origin", "authorization", "content-length"}

toLowerCase(name) ==
    CASE name = "Authorization" -> "authorization"
      [] name = "Content-Length" -> "content-length"
      [] OTHER -> name

\* a url string without a query part, as Express parses it
Url(pathname) == [path |-> pathname, query |-> ""]

\* the route each request came in on
ReqModel(r) ==
    CASE r = "r2" -> "mistral-small-latest"
      [] r = "r4" -> "gpt-4"
      [] OTHER -> "gpt-4o-2024-05-13"

ReqService(r) == IF r = "r2" THEN "mistral-ai" ELSE "openai"

\* app.use stamps startTime and retryCount; nothing else is set yet.
\* bodyStream is req.body.stream.  usageCount, preprocessorRuns, dequeueCount
\* and mutatorRuns record how often incrementUsage, the preprocessor chain,
\* dequeue() and the mutator chain have run for the request.  isBufferFull
\* and bufferFullCount are the variables the heartbeat callback closes over;
\* missedInARow observes the heartbeats skipped since the socket buffer last
\* drained.  signingKey is
\* the key a signing mutator holds while it awaits the key's access token.
NewRequest(r) ==
    [ pc |-> "idle",
      identity |-> None,
      isStreaming |-> FALSE,
      startTime |-> 0,
      retryCount |-> 0,
      queueOutTime |-> 0,
      headersSent |-> FALSE,
      destroyed |-> FALSE,
      heartbeatInterval |-> FALSE,
      isBufferFull |-> FALSE,
      bufferFullCount |-> 0,
      missedInARow |-> 0,
      onAborted |-> FALSE,
      key |-> None,
      signingKey |-> None,
      headers |-> [n \in HeaderNames |->
                      IF n = "origin" THEN "https://client.example"
                      ELSE Absent],
      body |-> "json",
      url |-> Url("/v1/chat/completions"),
      signedRequest |-> Absent,
      mutations |-> <<>>,
      usageCount |-> 0,
      bodyStream |-> FALSE,
      preprocessorRuns |-> 0,
      dequeueCount |-> 0,
      mutatorRuns |-> 0 ]

\* req.get(name)
reqGet(q, name) == q.headers[toLowerCase(name)]

setHeader(q, name, newValue) ==
    [q EXCEPT !.mutations = Append(@, [target |-> "header", key |-> name,
                                       originalValue |-> reqGet(q, name)]),
              !.headers[toLowerCase(name)] = newValue]

removeHeader(q, name) ==
    [q EXCEPT !.mutations = Append(@, [target |-> "header", key |-> name,
                                       originalValue |-> reqGet(q, name)]),
              !.headers[toLowerCase(name)] = Absent]

setBody(q, newBody) ==
    [q EXCEPT !.mutations = Append(@, [target |-> "body", key |-> "body",
                                       originalValue |-> q.body]),
              !.body = newBody]

setKey(q, newKey) ==
    [q EXCEPT !.mutations = Append(@, [target |-> "api-key", key |-> "key",
                                       originalValue |-> q.key]),
              !.key = newKey]

\* originalValue is req.path, the pathname; req.url is what is assigned
setPath(q, newPath) ==
    [q EXCEPT !.mutations = Append(@, [target |-> "path", key |-> "path",
                                       originalValue |-> q.url.path]),
              !.url = Url(newPath)]

setSignedRequest(q, newSignedRequest) ==
    [q EXCEPT !.mutations =
                  Append(@, [target |-> "signed-request",
                             key |-> "signedRequest",
                             originalValue |-> q.signedRequest]),
              !.signedRequest = newSignedRequest]

hasChanged(q) == Len(q.mutations) > 0

\* one case of the switch in revert()
RevertMutation(q, mutation) ==
    CASE mutation.target = "header" ->
            [q EXCEPT !.headers[toLowerCase(mutation.key)] =
                          mutation.originalValue]
      [] mutation.target = "path" ->
            [q EXCEPT !.url = Url(mutation.originalValue)]
      [] mutation.target = "body" ->
            [q EXCEPT !.body = mutation.originalValue]
      [] mutation.target = "api-key" -> q
      [] mutation.target = "signed-request" ->
            [q EXCEPT !.signedRequest = mutation.originalValue]

RECURSIVE RevertFrom(_, _)
\* the loop of revert() over this.mutations.reverse(), from index i down
RevertFrom(q, i) ==
    IF i = 0 THEN q
    ELSE RevertFrom(RevertMutation(q, q.mutations[i]), i - 1)

\* faulty variant: revert() that undoes nothing and keeps the log
revertNothing(q) == q

revert(q) ==
    [RevertFrom(q, Len(q.mutations)) EXCEPT !.mutations = <<>>]

(***************************************************************************)
(* SpecKeys: one provider's pool under get / markRateLimited /             *)
(* updateRateLimits / checker updates / disable, with the clock advancing. *)
(***************************************************************************)
\* what the key checkers pass to update()
CheckerPatches(service) ==
    CASE service = "openai" ->
            { [modelFamilies |-> {"turbo"},
               modelIds |-> {"text-embedding-ada-002"}],
              [modelFamilies |-> {"turbo", "gpt4", "gpt4o"},
               modelIds |-> OpenAIModels],
              [isTrial |-> TRUE] }
      [] service = "mistral-ai" -> {}
      [] service = None -> {}
      [] service = "aws" ->
            { [modelIds |-> AwsModels,
               modelFamilies |-> {"aws-claude", "aws-claude-opus"}],
              [modelIds |-> {"anthropic.claude-3-5-sonnet-20240620-v1:0"},
               modelFamilies |-> {"aws-claude"}],
              [awsLoggingStatus |-> "enabled"],
              [inferenceProfileIds |->
                   {"anthropic.claude-3-5-sonnet-20240620-v1:0"}] }

\* <<x-ratelimit-reset-requests, x-ratelimit-reset-tokens>> of a response
ResetHeaders ==
    LET absent == [present |-> FALSE, minutes |-> 0, seconds |-> 0, millis |-> 0]
        ms500 == [present |-> TRUE, minutes |-> 0, seconds |-> 0, millis |-> 500]
        s2 == [present |-> TRUE, minutes |-> 0, seconds |-> 2, millis |-> 0]
    IN { <<absent, absent>>, <<ms500, absent>>, <<ms500, s2>> }

Identities == {"u1", "u2"}

\* what the revert-law speaks of: headers, body, url, signedRequest
Content(q) ==
    [headers |-> q.headers, body |-> q.body, url |-> q.url,
     signedRequest |-> q.signedRequest]

(***************************************************************************)
(* The wait-time estimator.  The EMAs and the estimates are held as        *)
(* integer multiples of 1/EmaScale, which is exact for the number of ticks *)
(* a behaviour can make; ALPHA_HISTORICAL and ALPHA_CURRENT are held in    *)
(* tenths.                                                                 *)
(***************************************************************************)
MaxEstimates == 2

WAIT_TIME_INTERVAL == 3000

RECENT_WINDOW == 300000

ALPHA_HISTORICAL_TENTHS == 2

ALPHA_CURRENT_TENTHS == 3

EmaScale == 2 * 10 ^ (MaxEstimates + 2)

MODEL_FAMILIES ==
    <<"turbo", "gpt4", "gpt4-turbo", "gpt4o",
      "mistral-tiny", "mistral-small", "mistral-medium", "mistral-large",
      "aws-claude", "aws-claude-opus">>

FamilyNames == {MODEL_FAMILIES[i] : i \in 1..Len(MODEL_FAMILIES)}

\* start(): every EMA and estimate is 0; nextEstimate is when the interval
\* timer fires next
NoWaitStats ==
    [ waitTimes |-> <<>>,
      historicalEmas |-> [f \in FamilyNames |-> 0],
      currentEmas |-> [f \in FamilyNames |-> 0],
      estimates |-> [f \in FamilyNames |-> 0],
      nextEstimate |-> WAIT_TIME_INTERVAL ]

\* no record has been handed out
NoHandle == [hash |-> None]

\* the checker is between checks
NoCheck == [at |-> "idle", hash |-> None, isInitialCheck |-> FALSE]

\* no request has arrived
IdleRequests ==
    /\ waitStats = NoWaitStats
    /\ handles = NoHandle
    /\ checker = NoCheck
    /\ reqs = [r \in Reqs |-> NewRequest(r)]
    /\ queue = <<>>
    /\ users = [u \in Identities |-> [promptCount |-> 0, tokenCount |-> 0]]
    /\ snapshot = Content(NewRequest("r1"))

\* the keys configured for the provider: both slots, or the first alone
Pools == {KeyIds, {KeyOrder[1]}}

Called == calls < MaxCalls /\ calls' = calls + 1

InitKeys ==
    /\ now = 0
    /\ calls = 0
    /\ \E svc \in Services : \E pool \in Pools :
          /\ keys = [h \in KeyIds |->
                        IF h \in pool THEN NewKey(svc) ELSE NewKey(None)]
          /\ config \in { [checkKeys |-> c, allowAwsLogging |-> FALSE] :
                             c \in BOOLEAN }
    /\ IdleRequests

\* get(model): select, stamp lastUsed, throttle, return a copy
KGet(service, model) ==
    LET h == selectedKey(keys, service, model)
    IN /\ h # None
       /\ keys' = KeysAfterGet(keys, service, h)
       /\ Called /\ UNCHANGED <<now, config, reqVars>>

KMarkRateLimited(h) ==
    /\ keys[h].service \in Services
    /\ keys' = [keys EXCEPT ![h] = markRateLimited(keys[h])]
    /\ Called /\ UNCHANGED <<now, config, reqVars>>

KUpdateRateLimits(h, requestsReset, tokensReset) ==
    /\ keys[h].service = "openai"
    /\ keys' = [keys EXCEPT ![h] =
                   updateRateLimits(keys[h], requestsReset, tokensReset)]
    /\ Called /\ UNCHANGED <<now, config, reqVars>>

\* the checker exists only when config.checkKeys is set (init())
KUpdate(h, patch) ==
    /\ config.checkKeys
    /\ keys[h].service \in Services
    /\ keys' = [keys EXCEPT ![h] = update(keys[h], patch)]
    /\ Called /\ UNCHANGED <<now, config, reqVars>>

KDisable(h) ==
    /\ keys[h].service \in Services
    /\ keys' = [keys EXCEPT ![h] = disable(keys[h])]
    /\ Called /\ UNCHANGED <<now, config, reqVars>>

AdvanceTime(dt) ==
    /\ now + dt <= Horizon
    /\ now' = now + dt
    /\ UNCHANGED <<config, keys, calls, reqVars>>

NextKeys ==
    \/ \E svc \in Services : \E model \in ModelsOf(svc) : KGet(svc, model)
    \/ \E h \in KeyIds : KMarkRateLimited(h)
    \/ \E h \in KeyIds : \E hdr \in ResetHeaders :
          KUpdateRateLimits(h, hdr[1], hdr[2])
    \/ \E h \in KeyIds : \E patch \in CheckerPatches(keys[h].service) :
          KUpdate(h, patch)
    \/ \E h \in KeyIds : KDisable(h)
    \/ \E dt \in TimeSteps : AdvanceTime(dt)

SpecKeys == InitKeys /\ [][NextKeys]_vars

(***************************************************************************)
(* SpecMgr: one ProxyReqManager over request r1, driven by arbitrary       *)
(* mutator calls and revert().                                             *)
(***************************************************************************)
\* one key per service, as the queue's routes need
RoutePool ==
    [h \in KeyIds |->
        IF h = KeyOrder[1] THEN NewKey("openai") ELSE NewKey("mistral-ai")]

InboundUrls ==
    { Url("/v1/chat/completions"),
      [path |-> "/v1/chat/completions", query |-> "api-version=1"] }

InitMgr ==
    /\ now = 0
    /\ calls = 0
    /\ config = [checkKeys |-> FALSE, allowAwsLogging |-> FALSE]
    /\ keys = RoutePool
    /\ queue = <<>>
    /\ users = [u \in Identities |-> [promptCount |-> 0, tokenCount |-> 0]]
    /\ waitStats = NoWaitStats
    /\ handles = NoHandle
    /\ checker = NoCheck
    /\ \E url \in InboundUrls : \E auth \in {Absent, "Bearer client"} :
          reqs = [r \in Reqs |->
                     IF r = "r1"
                     THEN [NewRequest(r) EXCEPT
                              !.url = url, !.headers["authorization"] = auth]
                     ELSE NewRequest(r)]
    /\ snapshot = Content(reqs["r1"])

\* a mutator call on r1's manager; the snapshot is taken at the first one
Mutate(q) ==
    /\ Len(reqs["r1"].mutations) < MaxMutations
    /\ reqs' = [reqs EXCEPT !["r1"] = q]
    /\ snapshot' = IF hasChanged(reqs["r1"]) THEN snapshot
                   ELSE Content(reqs["r1"])
    /\ UNCHANGED <<keyVars, queue, users, waitStats, handles, checker>>

MSetHeader(name, value) == Mutate(setHeader(reqs["r1"], name, value))

MRemoveHeader(name) == Mutate(removeHeader(reqs["r1"], name))

MSetBody(newBody) == Mutate(setBody(reqs["r1"], newBody))

MSetKey(h) == Mutate(setKey(reqs["r1"], h))

MSetPath(newPath) == Mutate(setPath(reqs["r1"], newPath))

MSetSignedRequest(signed) == Mutate(setSignedRequest(reqs["r1"], signed))

MRevert ==
    /\ reqs' = [reqs EXCEPT !["r1"] = revert(reqs["r1"])]
    /\ UNCHANGED <<keyVars, queue, users, snapshot, waitStats, handles, checker>>

NextMgr ==
    \/ \E name \in {"Authorization", "Content-Length"} :
          \E value \in {"Bearer aaaaaaaa", "17"} : MSetHeader(name, value)
    \/ \E name \in {"origin", "Authorization"} : MRemoveHeader(name)
    \/ MSetBody("serialized")
    \/ \E h \in KeyIds : MSetKey(h)
    \/ MSetPath("/v1/complete")
    \/ MSetSignedRequest("signed")
    \/ MRevert

SpecMgr == InitMgr /\ [][NextMgr]_vars

(***************************************************************************)
(* The request queue.  The operators below work on a world record          *)
(* w = [reqs, queue, keys, users] so that a handler's steps compose.       *)
(***************************************************************************)
USER_CONCURRENCY_LIMIT == 1
LOAD_THRESHOLD == 150
tokensPunishmentFactor == 0

\* MODEL_FAMILIES, in the order of the source, for the modelled services
getModelFamilyForRequest(r) == FamilyOf(ReqService(r), ReqModel(r))

\* promptTokens and outputTokens of every modelled request
RequestTokens == [promptTokens |-> 1, outputTokens |-> 1]

World ==
    [reqs |-> reqs, queue |-> queue, keys |-> keys, users |-> users,
     waitTimes |-> waitStats.waitTimes]

getIdentifier(q) == q.identity

InQueue(qu, r) == \E i \in 1..Len(qu) : qu[i] = r

\* queue.splice(queue.indexOf(req), 1)
Splice(qu, r) ==
    LET Keep(x) == x # r
    IN SelectSeq(qu, Keep)

sharesIdentifierCount(w, r) ==
    Cardinality({i \in 1..Len(w.queue) :
        getIdentifier(w.reqs[w.queue[i]]) = getIdentifier(w.reqs[r])})

getProxyLoad(w, uniqueIps) == Max(uniqueIps, Len(w.queue))

\* enqueue() from registerHeartbeat on: what runs once the join message is out
\* faulty variant: the close handler and the heartbeat are set up only the
\* first time a request joins the queue
enqueuePushBindingOnce(w, r) ==
    LET first == w.reqs[r].retryCount = 0
    IN [w EXCEPT !.queue = Append(@, r),
                 !.reqs[r].heartbeatInterval =
                     IF w.reqs[r].isStreaming /\ first THEN TRUE ELSE @,
                 !.reqs[r].queueOutTime = 0,
                 !.reqs[r].onAborted = first,
                 !.reqs[r].pc = "queued"]

enqueuePush(w, r) ==
    [w EXCEPT !.queue = Append(@, r),
              !.reqs[r].heartbeatInterval =
                  IF w.reqs[r].isStreaming THEN TRUE ELSE @,
              !.reqs[r].isBufferFull =
                  IF w.reqs[r].isStreaming THEN FALSE ELSE @,
              !.reqs[r].bufferFullCount =
                  IF w.reqs[r].isStreaming THEN 0 ELSE @,
              !.reqs[r].missedInARow =
                  IF w.reqs[r].isStreaming THEN 0 ELSE @,
              !.reqs[r].queueOutTime = 0,
              !.reqs[r].onAborted = TRUE,
              !.reqs[r].pc = "queued"]

\* enqueue(req): the world after the call and how the call ended.  bufferFull
\* says whether res.write(joinMsg) returned false, so that initStreaming
\* awaits the drain event.
enqueue(w, r, bufferFull, uniqueIps) ==
    LET q == w.reqs[r]
    IN IF q.destroyed
       THEN [world |-> w, result |-> "aborted"]
       ELSE IF sharesIdentifierCount(w, r) >= USER_CONCURRENCY_LIMIT
       THEN [world |-> w, result |-> "TooManyRequestsError"]
       ELSE IF q.isStreaming
       THEN IF ~q.headersSent
            THEN IF bufferFull
                 THEN [world |-> [w EXCEPT !.reqs[r].headersSent = TRUE,
                                           !.reqs[r].pc = "joining"],
                       result |-> "suspended"]
                 ELSE [world |-> enqueuePush(
                                     [w EXCEPT !.reqs[r].headersSent = TRUE],
                                     r),
                       result |-> "queued"]
            ELSE [world |-> enqueuePush(w, r), result |-> "queued"]
       ELSE IF getProxyLoad(w, uniqueIps) > LOAD_THRESHOLD
       THEN [world |-> w, result |-> "BadRequestError"]
       ELSE [world |-> enqueuePush(w, r), result |-> "queued"]

\* faulty variant: the retry goes through the preprocessors again
reenqueueRequestPreprocessing(w, r, uniqueIps) ==
    enqueue([w EXCEPT !.reqs[r].retryCount = @ + 1,
                      !.reqs[r].preprocessorRuns = @ + 1],
            r, FALSE, uniqueIps)

\* reenqueueRequest(req): req.retryCount++; await enqueue(req)
reenqueueRequest(w, r, uniqueIps) ==
    enqueue([w EXCEPT !.reqs[r].retryCount = @ + 1], r, FALSE, uniqueIps)

\* faulty variant: the close handler clears the timers but leaves the request
\* in the queue
removeFromQueueKeeping(w, r) ==
    [w EXCEPT !.reqs[r].heartbeatInterval = FALSE]

\* the close handler enqueue() registers
removeFromQueue(w, r) ==
    [w EXCEPT !.queue = Splice(@, r),
              !.reqs[r].heartbeatInterval = FALSE]

getQueueForPartition(w, partition) ==
    LET Mine(r) == getModelFamilyForRequest(r) = partition
    IN SelectSeq(w.queue, Mine)

Cost(q) ==
    q.startTime
    + tokensPunishmentFactor
        * (RequestTokens.promptTokens + RequestTokens.outputTokens)

RECURSIVE Reduce(_, _, _)
\* modelQueue.reduce((prev, curr) => cost(prev) < cost(curr) ? prev : curr)
Reduce(w, prev, rest) ==
    IF rest = <<>> THEN prev
    ELSE Reduce(w,
                IF Cost(w.reqs[prev]) < Cost(w.reqs[Head(rest)])
                THEN prev ELSE Head(rest),
                Tail(rest))

\* faulty variant: first come first served by position in the queue
dequeuedByPosition(w, partition) ==
    LET modelQueue == getQueueForPartition(w, partition)
    IN IF modelQueue = <<>> THEN None ELSE Head(modelQueue)

\* the request dequeue(partition) returns; None for undefined
dequeued(w, partition) ==
    LET modelQueue == getQueueForPartition(w, partition)
    IN IF modelQueue = <<>> THEN None
       ELSE Reduce(w, Head(modelQueue), Tail(modelQueue))

\* the effects of dequeue(partition) when it returns r
dequeue(w, r) ==
    [w EXCEPT !.queue = Splice(@, r),
              !.reqs[r].onAborted = FALSE,
              !.reqs[r].heartbeatInterval = FALSE,
              !.reqs[r].queueOutTime = now,
              !.reqs[r].dequeueCount = @ + 1]

(***************************************************************************)
(* The key pool routes a call to the provider of the key's service or of   *)
(* the family's service.                                                   *)
(***************************************************************************)
keyPoolGetLockoutPeriod(family) ==
    getLockoutPeriod(MODEL_FAMILY_SERVICE(family), family)

keyPoolMarkRateLimited(ks, h) == [ks EXCEPT ![h] = markRateLimited(ks[h])]

keyPoolUpdateRateLimits(ks, h, headers) ==
    IF ks[h].service = "openai"
    THEN [ks EXCEPT ![h] = updateRateLimits(ks[h], headers[1], headers[2])]
    ELSE ks

\* the providers' incrementUsage(hash, model, tokens)
providerIncrementUsage(k, tokens) ==
    [k EXCEPT !.promptCount = @ + 1, !.tokens = @ + tokens]

keyPoolIncrementUsage(ks, h, tokens) ==
    [ks EXCEPT ![h] = providerIncrementUsage(ks[h], tokens)]

(***************************************************************************)
(* req.proceed(): a fresh manager, then the mutators stripHeaders, addKey, *)
(* finalizeBody, then the proxy middleware sends the request upstream.     *)
(***************************************************************************)
\* of the headers stripHeaders removes, origin is the modelled one
stripHeaders(q) == removeHeader(q, "origin")

\* addKey: the world after it, and whether keyPool.get threw
addKey(w, r) ==
    LET h == selectedKey(w.keys, ReqService(r), ReqModel(r))
    IN IF h = None
       THEN [world |-> w, result |-> "PaymentRequiredError"]
       ELSE [world |->
                [w EXCEPT !.keys = KeysAfterGet(w.keys, ReqService(r), h),
                          !.reqs[r] = setHeader(setKey(@, h),
                                                "Authorization", h)],
             result |-> "ok"]

finalizeBody(q) ==
    setBody(setHeader(q, "Content-Length", "17"), "serialized")

\* faulty variant: a request whose mutators throw is put back in the queue
proceedRequeueingRetries(w, r) ==
    LET fresh == [w EXCEPT !.reqs[r].mutations = <<>>,
                           !.reqs[r].mutatorRuns = @ + 1]
        keyed == addKey([fresh EXCEPT !.reqs[r] = stripHeaders(@)], r)
    IN IF keyed.result # "ok"
       THEN enqueuePush(keyed.world, r)
       ELSE [keyed.world EXCEPT !.reqs[r] =
                [finalizeBody(@) EXCEPT !.pc = "inflight"]]

\* faulty variant: the route's mutator list lacks the body finalizer
proceedWithoutFinalizer(w, r) ==
    LET stream == w.reqs[r].isStreaming \/ w.reqs[r].bodyStream
        fresh == [w EXCEPT !.reqs[r].isStreaming = stream,
                           !.reqs[r].bodyStream = stream,
                           !.reqs[r].mutations = <<>>,
                           !.reqs[r].mutatorRuns = @ + 1]
        keyed == addKey([fresh EXCEPT !.reqs[r] = stripHeaders(@)], r)
    IN IF keyed.result # "ok"
       THEN [keyed.world EXCEPT !.reqs[r].pc = "failed"]
       ELSE [keyed.world EXCEPT !.reqs[r].pc = "inflight"]

proceed(w, r) ==
    LET stream == w.reqs[r].isStreaming \/ w.reqs[r].bodyStream
        fresh == [w EXCEPT !.reqs[r].isStreaming = stream,
                           !.reqs[r].bodyStream = stream,
                           !.reqs[r].mutations = <<>>,
                           !.reqs[r].mutatorRuns = @ + 1]
        stripped == [fresh EXCEPT !.reqs[r] = stripHeaders(@)]
        keyed == addKey(stripped, r)
    IN IF keyed.result # "ok"
       THEN [keyed.world EXCEPT !.reqs[r].pc = "failed"]
       ELSE [keyed.world EXCEPT !.reqs[r] =
                [finalizeBody(@) EXCEPT !.pc = "inflight"]]

(***************************************************************************)
(* processQueue(): one tick of the scheduler.                              *)
(***************************************************************************)
\* faulty variant: one locked-out family holds back every family
familiesToServeWhenAllFree ==
    IF \A j \in 1..Len(MODEL_FAMILIES) :
          keyPoolGetLockoutPeriod(MODEL_FAMILIES[j]) = 0
    THEN {MODEL_FAMILIES[j] : j \in 1..Len(MODEL_FAMILIES)}
    ELSE {}

\* the families the tick dequeues for
familiesToServe ==
    {MODEL_FAMILIES[i] : i \in
        {j \in 1..Len(MODEL_FAMILIES) :
            keyPoolGetLockoutPeriod(MODEL_FAMILIES[j]) = 0}}

RECURSIVE DequeueLoop(_, _, _)
\* MODEL_FAMILIES.forEach: the world and the requests collected from family i on
DequeueLoop(w, i, collected) ==
    IF i > Len(MODEL_FAMILIES) THEN [world |-> w, reqs |-> collected]
    ELSE LET family == MODEL_FAMILIES[i]
             r == dequeued(w, family)
         IN IF family \in familiesToServe /\ r # None
            THEN DequeueLoop(dequeue(w, r), i + 1, Append(collected, r))
            ELSE DequeueLoop(w, i + 1, collected)

RECURSIVE ProceedLoop(_, _)
\* reqs.forEach(req => req.proceed())
ProceedLoop(w, todo) ==
    IF todo = <<>> THEN w
    ELSE ProceedLoop(proceed(w, Head(todo)), Tail(todo))

processQueue(w) ==
    LET got == DequeueLoop(w, 1, <<>>)
    IN ProceedLoop(got.world, got.reqs)

(***************************************************************************)
(* createOnProxyResHandler: what runs when the upstream response arrives.  *)
(***************************************************************************)
\* trackWaitTime(req): the wait of a successful request joins waitTimes
trackWaitTime(w, r) ==
    [w EXCEPT !.waitTimes =
        Append(@, [partition |-> getModelFamilyForRequest(r),
                   start |-> w.reqs[r].startTime,
                   end |-> w.reqs[r].queueOutTime])]

\* incrementUsage: the key's counters and, for a request with a user, the
\* user's
incrementUsage(w, r) ==
    LET q == w.reqs[r]
        tokensUsed == RequestTokens.promptTokens + RequestTokens.outputTokens
    IN [w EXCEPT !.keys = keyPoolIncrementUsage(@, q.key, tokensUsed),
                 !.users[q.identity].promptCount = @ + 1,
                 !.users[q.identity].tokenCount = @ + tokensUsed,
                 !.reqs[r].usageCount = @ + 1]

trackKeyRateLimit(w, r, headers) ==
    [w EXCEPT !.keys = keyPoolUpdateRateLimits(@, w.reqs[r].key, headers)]

\* the rate-limit branches of handleUpstreamErrors that retry: mark the key,
\* re-enqueue, throw RetryableError; an error thrown by enqueue propagates
handleRateLimitError(w, r, uniqueIps) ==
    LET marked == [w EXCEPT !.keys =
                       keyPoolMarkRateLimited(@, w.reqs[r].key)]
        again == reenqueueRequest(marked, r, uniqueIps)
    IN IF again.result = "queued" THEN again.world
       ELSE [again.world EXCEPT !.reqs[r].pc = "failed"]

\* the catch block of handleStreamedResponse for a RetryableError, and the
\* rest of the middleware stack when the aggregator holds events
handleStreamRetry(w, r, headers, hasEvents, uniqueIps) ==
    LET marked == [w EXCEPT !.keys =
                       keyPoolMarkRateLimited(@, w.reqs[r].key)]
        again == reenqueueRequest(marked, r, uniqueIps)
    IN IF again.result # "queued"
       THEN [again.world EXCEPT !.reqs[r].pc = "failed"]
       ELSE IF hasEvents
       THEN trackWaitTime(
                incrementUsage(trackKeyRateLimit(again.world, r, headers), r),
                r)
       ELSE again.world

\* the catch block of handleStreamedResponse for any other error: the error
\* is written to the client and the response ended; the rest of the
\* middleware stack runs when the aggregator holds events
handleStreamFailure(w, r, headers, hasEvents) ==
    LET ended == [w EXCEPT !.reqs[r].pc = "failed"]
    IN IF hasEvents
       THEN trackWaitTime(
                incrementUsage(trackKeyRateLimit(ended, r, headers), r), r)
       ELSE ended

\* the handler for each kind of upstream response
onProxyRes(w, r, outcome, headers, hasEvents, uniqueIps) ==
    LET reverted == [w EXCEPT !.reqs[r] = revert(@)]
    IN CASE outcome = "ok" ->
              [trackWaitTime(
                   incrementUsage(trackKeyRateLimit(reverted, r, headers), r),
                   r)
                  EXCEPT !.reqs[r].pc = "done"]
         [] outcome = "rate-limited" ->
              handleRateLimitError(trackKeyRateLimit(reverted, r, headers),
                                   r, uniqueIps)
         [] outcome = "stream-retryable" ->
              handleStreamRetry(reverted, r, headers, hasEvents, uniqueIps)
         [] outcome = "stream-failed" ->
              handleStreamFailure(reverted, r, headers, hasEvents)

(***************************************************************************)
(* Spec: requests arrive, wait in the queue, are dispatched by the ticks   *)
(* of the scheduler and answered by the upstream service.                  *)
(***************************************************************************)
\* getUniqueIps() as the rate limiter reports it
UniqueIpCounts == {1, 151}

Outcomes == {"ok", "rate-limited", "stream-retryable"}

\* the rate-limit headers upstream responses carry in Spec
UpstreamHeaders ==
    {<<[present |-> TRUE, minutes |-> 0, seconds |-> 0, millis |-> 500],
       [present |-> FALSE, minutes |-> 0, seconds |-> 0, millis |-> 0]>>}

\* who sends each request, and whether it asks for streaming
IdentitiesOf(r) ==
    CASE r = "r1" -> {"u1"}
      [] r = "r2" -> Identities
      [] OTHER -> {}

StreamOptions(r) == IF r = "r1" THEN {TRUE} ELSE BOOLEAN

\* the clock of Spec moves in steps of the shortest rate-limit lockout
QueueHorizon == MaxWaits * MISTRAL_RATE_LIMIT_LOCKOUT

Elapse ==
    /\ now + MISTRAL_RATE_LIMIT_LOCKOUT <= QueueHorizon
    /\ now' = now + MISTRAL_RATE_LIMIT_LOCKOUT
    /\ UNCHANGED <<config, keys, calls, reqVars>>

Init ==
    /\ now = 0
    /\ calls = 0
    /\ config = [checkKeys |-> FALSE, allowAwsLogging |-> FALSE]
    /\ keys = RoutePool
    /\ IdleRequests

\* install a world as the next state
Becomes(w) ==
    /\ reqs' = w.reqs
    /\ queue' = w.queue
    /\ keys' = w.keys
    /\ users' = w.users
    /\ waitStats' = [waitStats EXCEPT !.waitTimes = w.waitTimes]
    /\ UNCHANGED <<now, config, calls, snapshot, handles, checker>>

\* a request comes in: the router stamps it, the preprocessors run and the
\* queue middleware calls enqueue; an error of enqueue is sent to the client
Arrive(r, identity, stream, bufferFull, uniqueIps) ==
    /\ reqs[r].pc = "idle"
    /\ LET stamped == [World EXCEPT !.reqs[r].identity = identity,
                                    !.reqs[r].isStreaming = stream,
                                    !.reqs[r].bodyStream = stream,
                                    !.reqs[r].preprocessorRuns = @ + 1,
                                    !.reqs[r].startTime = now,
                                    !.reqs[r].retryCount = 0]
           joined == enqueue(stamped, r, bufferFull, uniqueIps)
       IN IF joined.result \in {"queued", "suspended"}
          THEN Becomes(joined.world)
          ELSE Becomes([joined.world EXCEPT !.reqs[r].pc = "rejected"])

\* the client has consumed the join message: enqueue resumes
Drain(r) ==
    /\ reqs[r].pc = "joining"
    /\ ~reqs[r].destroyed
    /\ Becomes(enqueuePush(World, r))

\* the client closes the connection
Close(r) ==
    /\ reqs[r].pc \in {"joining", "queued"}
    /\ ~reqs[r].destroyed
    /\ LET gone == [World EXCEPT !.reqs[r].destroyed = TRUE]
       IN IF reqs[r].onAborted
          THEN Becomes([removeFromQueue(gone, r) EXCEPT
                           !.reqs[r].pc = "closed"])
          ELSE Becomes(gone)

Tick ==
    /\ queue # <<>>
    /\ Becomes(processQueue(World))

\* the upstream service answers an in-flight request
Respond(r, outcome, headers, hasEvents, uniqueIps) ==
    /\ reqs[r].pc = "inflight"
    /\ outcome = "stream-retryable" => reqs[r].isStreaming
    /\ outcome # "ok" => reqs[r].retryCount < MaxRetries
    /\ Becomes(onProxyRes(World, r, outcome, headers, hasEvents, uniqueIps))

Next ==
    \/ \E r \in Reqs : \E identity \in IdentitiesOf(r) :
          \E stream \in StreamOptions(r) :
          \E bufferFull \in BOOLEAN : \E uniqueIps \in UniqueIpCounts :
             Arrive(r, identity, stream, bufferFull, uniqueIps)
    \/ \E r \in Reqs : Drain(r)
    \/ \E r \in Reqs : Close(r)
    \/ Tick
    \/ \E r \in Reqs : \E outcome \in Outcomes : \E headers \in UpstreamHeaders :
          \E hasEvents \in BOOLEAN : \E uniqueIps \in UniqueIpCounts :
             Respond(r, outcome, headers, hasEvents, uniqueIps)
    \/ Elapse

Spec == Init /\ [][Next]_vars

(***************************************************************************)
(* Properties of the key providers (checked under SpecKeys).               *)
(***************************************************************************)
EnabledKeysOf(service, family) ==
    {h \in KeyIds : /\ keys[h].service = service
                    /\ ~keys[h].isDisabled
                    /\ family \in keys[h].modelFamilies}

\* the pool's record of the key returned by a get() step
ReturnedBy(service, model) == keys'[selectedKey(keys, service, model)]

\* C2: for every provider, every key returned by get(model) is not disabled
\* and has family(model) among its modelFamilies.
C2_GetReturnsEnabledKeyOfFamily ==
    [][\A svc \in Services : \A model \in ModelsOf(svc) :
          KGet(svc, model) =>
              /\ ~ReturnedBy(svc, model).isDisabled
              /\ FamilyOf(svc, model) \in ReturnedBy(svc, model).modelFamilies
      ]_vars

\* a key of each kind has just been handed out by get()
C2_Witness ==
    \E h \in KeyIds :
        /\ now > 0
        /\ keys[h].lastUsed = now
        /\ ~keys[h].isDisabled
        /\ keys[h].modelFamilies # FamiliesOf(keys[h].service)

C5_RevertRestoresRequest ==
    [][MRevert => Content(reqs'["r1"]) = snapshot]_vars

\* what revert() does restore: everything but the query string of the url
RevertRestoresAllButQuery ==
    [][MRevert =>
          /\ reqs'["r1"].headers = snapshot.headers
          /\ reqs'["r1"].body = snapshot.body
          /\ reqs'["r1"].signedRequest = snapshot.signedRequest
          /\ reqs'["r1"].url.path = snapshot.url.path
          /\ reqs'["r1"].mutations = <<>>
      ]_vars

(***************************************************************************)
(* Properties of the queue and of the response handlers (checked under     *)
(* Spec).                                                                  *)
(***************************************************************************)
\* C1: in every reachable state, for every request in the queue, the number
\* of queued requests that share its identity is at most
\* USER_CONCURRENCY_LIMIT, under any interleaving of enqueues (including
\* those suspended on the join message) and re-enqueues.
C1_IdentityLimitInQueue ==
    \A i \in 1..Len(queue) :
        Cardinality({j \in 1..Len(queue) :
            getIdentifier(reqs[queue[j]]) = getIdentifier(reqs[queue[i]])})
        <= USER_CONCURRENCY_LIMIT

\* C6: whenever a request is re-enqueued after a retryable failure, the
\* mutations of the failed attempt have been reverted: the mutation log of a
\* request is empty when re-enqueue has put it in the queue, and it stays
\* empty for as long as the request waits for its next dispatch.
C6_LogEmptyAtReenqueue ==
    \A r \in Reqs : reqs[r].pc = "queued" => ~hasChanged(reqs[r])

\* a request that was dispatched with a key, failed and is queued again
C6_Witness ==
    \E r \in Reqs :
        /\ reqs[r].retryCount > 0
        /\ reqs[r].pc = "queued"
        /\ reqs[r].key # None
        /\ ~hasChanged(reqs[r])
        /\ Content(reqs[r]) = Content(NewRequest(r))

\* C7: a reenqueue(req) call for a connected client increments retryCount
\* by exactly one and leaves the request in the queue, for any state of the
\* queue and of the other requests.
C7_ReenqueuePutsBack ==
    [][\A r \in Reqs :
          (reqs'[r].retryCount # reqs[r].retryCount /\ ~reqs[r].destroyed) =>
              /\ reqs'[r].retryCount = reqs[r].retryCount + 1
              /\ InQueue(queue', r)
      ]_vars

\* C8: over all attempts of a request, mid-stream retries included, usage
\* is recorded exactly once: a finished request has been counted once and
\* no request is ever counted twice.
C8_UsageRecordedOnce ==
    \A r \in Reqs :
        /\ reqs[r].usageCount <= 1
        /\ reqs[r].pc = "done" => reqs[r].usageCount = 1

\* C9: a request whose client closed the connection while it was queued is
\* out of the queue with its timers cleared and is never dispatched; if it
\* had not been dispatched before, it has no key and no usage.
C9_ClosedWhileQueuedIsDropped ==
    \A r \in Reqs :
        (reqs[r].destroyed /\ reqs[r].pc # "joining") =>
            /\ reqs[r].pc = "closed"
            /\ ~InQueue(queue, r)
            /\ ~reqs[r].heartbeatInterval
            /\ reqs[r].retryCount = 0 =>
                  /\ reqs[r].key = None
                  /\ reqs[r].usageCount = 0

\* a streaming request closed in the queue before its first dispatch, while
\* the scheduler has gone on to dispatch another request
C9_Witness ==
    \E r \in Reqs : \E other \in Reqs :
        /\ reqs[r].pc = "closed"
        /\ reqs[r].isStreaming
        /\ reqs[r].retryCount = 0
        /\ reqs[r].headersSent
        /\ reqs[other].pc = "inflight"
        /\ reqs[other].startTime >= reqs[r].startTime

\* C10: in every reachable state, one tick of the scheduler acts as
\* follows: if family f is locked out (lockout period > 0) and family g is
\* not and has queued requests, then the tick takes a request of g out of
\* the queue and dispatches it, and every queued request of f stays queued,
\* untouched.
C10_PartitionsIsolated ==
    LET after == processQueue(World)
    IN \A f \in FamiliesOf("openai") \cup FamiliesOf("mistral-ai") :
       \A g \in FamiliesOf("openai") \cup FamiliesOf("mistral-ai") :
           ( /\ keyPoolGetLockoutPeriod(f) > 0
             /\ keyPoolGetLockoutPeriod(g) = 0
             /\ getQueueForPartition(World, g) # <<>> )
           => /\ \E i \in 1..Len(queue) :
                    /\ getModelFamilyForRequest(queue[i]) = g
                    /\ ~InQueue(after.queue, queue[i])
                    /\ after.reqs[queue[i]].pc = "inflight"
                    /\ after.reqs[queue[i]].key # None
                    /\ after.reqs[queue[i]].queueOutTime = now
              /\ \A i \in 1..Len(queue) :
                    getModelFamilyForRequest(queue[i]) = f
                        => /\ InQueue(after.queue, queue[i])
                           /\ after.reqs[queue[i]] = reqs[queue[i]]

\* a request of a free family and a request of a locked-out family wait
\* together, and the tick dispatches the first and keeps the second
C10_Witness ==
    \E r \in Reqs : \E held \in Reqs :
        /\ InQueue(queue, r)
        /\ InQueue(queue, held)
        /\ keyPoolGetLockoutPeriod(getModelFamilyForRequest(held)) > 0
        /\ keyPoolGetLockoutPeriod(getModelFamilyForRequest(r)) = 0
        /\ LET after == processQueue(World)
           IN /\ after.reqs[r].pc = "inflight"
              /\ InQueue(after.queue, held)

(***************************************************************************)
(* SpecRot: the queue with a pool of two OpenAI keys, so that a request    *)
(* whose key is rate limited can be served by the other key.               *)
(***************************************************************************)
RotationPool ==
    [h \in KeyIds |-> NewKey("openai")]

InitRot ==
    /\ now = 0
    /\ calls = 0
    /\ config = [checkKeys |-> FALSE, allowAwsLogging |-> FALSE]
    /\ keys = RotationPool
    /\ IdleRequests

SpecRot == InitRot /\ [][Next]_vars

\* another enabled key of the request's family that is not rate limited
OtherFreeKeys(r) ==
    {h \in KeyIds :
        /\ h # reqs[r].key
        /\ keys[h].service = ReqService(r)
        /\ ~keys[h].isDisabled
        /\ getModelFamilyForRequest(r) \in keys[h].modelFamilies
        /\ keys[h].rateLimitedUntil <= now}

\* C11: key rotation under rate limit.  When the key A of an in-flight
\* request answers 429 (rate limit) while another enabled key B of the
\* family is not rate limited, then after the handler A is rate limited and
\* the request is reverted and back in the queue, from where its next
\* dispatch can select B.
C11_RateLimitedRequestRequeued ==
    [][\A r \in Reqs : \A headers \in UpstreamHeaders :
       \A uniqueIps \in UniqueIpCounts :
          ( /\ Respond(r, "rate-limited", headers, FALSE, uniqueIps)
            /\ OtherFreeKeys(r) # {} )
          => /\ keys'[reqs[r].key].rateLimitedUntil > now
             /\ ~hasChanged(reqs'[r])
             /\ InQueue(queue', r)
      ]_vars

\* what does hold: a re-enqueued request whose former key is rate limited
\* while another key of the family is free is dispatched with the free key
RotationSelectsFreeKey ==
    LET after == processQueue(World)
    IN \A r \in Reqs :
          ( /\ InQueue(queue, r)
            /\ reqs[r].retryCount > 0
            /\ reqs[r].key # None
            /\ keys[reqs[r].key].rateLimitedUntil > now
            /\ OtherFreeKeys(r) # {}
            /\ after.reqs[r].pc = "inflight" )
          => after.reqs[r].key \in OtherFreeKeys(r)

(***************************************************************************)
(* handleUpstreamErrors: the classifier of upstream error responses.  An   *)
(* error payload is held as the fields the classifier reads: error.code,   *)
(* error.type (for AWS the x-amzn-errortype header, for GCP error.status), *)
(* which of the message patterns error.message matches, and Google AI's    *)
(* error.status and details[0].reason.  json is FALSE for a body that is   *)
(* not JSON.  A handler yields the world after it and how it ended:        *)
(* "return", or the name of the error it threw.                            *)
(***************************************************************************)
\* keyPool.disable(key, reason): the provider's disable(), and isRevoked for
\* the reason "revoked"
keyPoolDisable(ks, h, reason) ==
    LET disabled == disable(ks[h])
    IN [ks EXCEPT ![h] = IF reason = "revoked"
                         THEN [disabled EXCEPT !.isRevoked = TRUE]
                         ELSE disabled]

\* keyPool.update(key, patch)
keyPoolUpdate(ks, h, patch) == [ks EXCEPT ![h] = update(ks[h], patch)]

Returned(w) == [world |-> w, result |-> "return"]

Disabling(w, r, reason) ==
    Returned([w EXCEPT !.keys = keyPoolDisable(@, w.reqs[r].key, reason)])

\* await reenqueueRequest(req); throw new RetryableError(...)
Retrying(w, r, uniqueIps) ==
    LET again == reenqueueRequest(w, r, uniqueIps)
    IN [world |-> again.world,
        result |-> IF again.result = "queued" THEN "RetryableError"
                   ELSE again.result]

\* keyPool.markRateLimited(req.key); await reenqueueRequest(req); throw
MarkingAndRetrying(w, r, uniqueIps) ==
    Retrying([w EXCEPT !.keys = keyPoolMarkRateLimited(@, w.reqs[r].key)],
             r, uniqueIps)

handleOpenAIRateLimitError(w, r, payload, uniqueIps) ==
    CASE payload.type \in {"insufficient_quota", "invalid_request_error"} ->
            Disabling(w, r, "quota")
      [] payload.type = "access_terminated" -> Disabling(w, r, "revoked")
      [] payload.type = "billing_not_active" -> Disabling(w, r, "quota")
      [] payload.type \in {"requests", "tokens"} ->
            IF payload.message = "on requests per day"
            THEN Returned([w EXCEPT !.keys =
                              keyPoolMarkRateLimited(@, w.reqs[r].key)])
            ELSE MarkingAndRetrying(w, r, uniqueIps)
      [] OTHER -> Returned(w)

handleAzureRateLimitError(w, r, payload, uniqueIps) ==
    IF payload.code = "429" THEN MarkingAndRetrying(w, r, uniqueIps)
    ELSE Returned(w)

handleAwsRateLimitError(w, r, payload, uniqueIps) ==
    IF payload.type = "ThrottlingException"
    THEN MarkingAndRetrying(w, r, uniqueIps)
    ELSE Returned(w)

handleGcpRateLimitError(w, r, payload, uniqueIps) ==
    IF payload.type = "RESOURCE_EXHAUSTED"
    THEN MarkingAndRetrying(w, r, uniqueIps)
    ELSE Returned(w)

handleGoogleAIRateLimitError(w, r, payload, uniqueIps) ==
    IF payload.status = "RESOURCE_EXHAUSTED"
    THEN MarkingAndRetrying(w, r, uniqueIps)
    ELSE Returned(w)

handleAnthropicAwsBadRequestError(w, r, payload, uniqueIps) ==
    CASE payload.message = "prompt must start with Human: turn" ->
            Retrying([w EXCEPT !.keys =
                         keyPoolUpdate(@, w.reqs[r].key,
                                       [requiresPreamble |-> TRUE])],
                     r, uniqueIps)
      [] payload.message \in {"usage blocked until",
                              "credit balance is too low"} ->
            Disabling(w, r, "quota")
      [] payload.message \in {"organization has been disabled",
                              "operation not allowed"} ->
            Disabling(w, r, "revoked")
      [] OTHER -> Returned(w)

handleGoogleAIBadRequestError(w, r, payload) ==
    CASE payload.status = "INVALID_ARGUMENT"
         /\ payload.reason = "API_KEY_INVALID" -> Disabling(w, r, "revoked")
      [] payload.status = "FAILED_PRECONDITION"
         /\ payload.message = "please enable billing" ->
            Disabling(w, r, "revoked")
      [] OTHER -> Returned(w)

\* error.code || error.type || the x-amzn-errortype header
errorTypeOf(payload) == IF payload.code # "" THEN payload.code ELSE payload.type

\* the branch of handleUpstreamErrors for the status code; "return" from a
\* branch that breaks goes on to sendProxyError and the HttpError
classify(w, r, statusCode, payload, uniqueIps) ==
    LET service == w.keys[w.reqs[r].key].service
        Break(w2) == [world |-> w2, result |-> "break"]
        Breaking(handled) ==
            IF handled.result = "return" THEN Break(handled.world)
            ELSE handled
    IN CASE statusCode = 400 ->
              (CASE service \in {"openai", "mistral-ai"} ->
                      IF payload.code = "billing_hard_limit_reached"
                      THEN Breaking(handleOpenAIRateLimitError(
                                        w, r, payload, uniqueIps))
                      ELSE Break(w)
                 [] service \in {"aws", "gcp"} ->
                      Breaking(handleAnthropicAwsBadRequestError(
                                   w, r, payload, uniqueIps))
                 [] service = "google-ai" ->
                      Breaking(handleGoogleAIBadRequestError(w, r, payload)))
         [] statusCode = 401 ->
              Break([w EXCEPT !.keys =
                        keyPoolDisable(@, w.reqs[r].key, "revoked")])
         [] statusCode = 403 ->
              (CASE service = "aws" ->
                      (CASE errorTypeOf(payload)
                              = "UnrecognizedClientException" ->
                              Disabling(w, r, "revoked")
                         [] errorTypeOf(payload) = "AccessDeniedException" ->
                              IF payload.message # "specified model ID"
                              THEN Disabling(w, r, "revoked")
                              ELSE Returned(w)
                         [] OTHER -> Returned(w))
                 [] service \in {"mistral-ai", "gcp"} ->
                      Disabling(w, r, "revoked")
                 [] OTHER -> Break(w))
         [] statusCode = 429 ->
              (CASE service = "openai" ->
                      Breaking(handleOpenAIRateLimitError(
                                   w, r, payload, uniqueIps))
                 [] service = "aws" ->
                      Breaking(handleAwsRateLimitError(
                                   w, r, payload, uniqueIps))
                 [] service = "gcp" ->
                      Breaking(handleGcpRateLimitError(
                                   w, r, payload, uniqueIps))
                 [] service = "mistral-ai" ->
                      Breaking(handleAzureRateLimitError(
                                   w, r, payload, uniqueIps))
                 [] service = "google-ai" ->
                      Breaking(handleGoogleAIRateLimitError(
                                   w, r, payload, uniqueIps)))
         [] OTHER -> Break(w)

\* handleUpstreamErrors(proxyRes, req, res, body): "return" lets the next
\* response handler run; "HttpError" is thrown after sendProxyError has
\* answered the client
handleUpstreamErrors(w, r, statusCode, payload, uniqueIps) ==
    IF statusCode < 400 THEN Returned(w)
    ELSE IF ~payload.json THEN [world |-> w, result |-> "HttpError"]
    ELSE LET handled == classify(w, r, statusCode, payload, uniqueIps)
         IN IF handled.result = "break"
            THEN [world |-> handled.world, result |-> "HttpError"]
            ELSE handled

\* faulty variant: the handlers after handleUpstreamErrors run whatever it
\* threw
responseStackIgnoringErrors(w, r, statusCode, payload, headers, uniqueIps) ==
    LET tracked == trackKeyRateLimit(w, r, headers)
        handled == handleUpstreamErrors(tracked, r, statusCode, payload,
                                        uniqueIps)
    IN [trackWaitTime(incrementUsage(handled.world, r), r)
           EXCEPT !.reqs[r].pc = "done"]

\* the middleware stack of a non-streaming response and the catch block
\* around it: pc is "done" once the api middleware has sent the 200 response,
\* "failed" once an error response has ended the exchange
responseStack(w, r, statusCode, payload, headers, uniqueIps) ==
    LET tracked == trackKeyRateLimit(w, r, headers)
        handled == handleUpstreamErrors(tracked, r, statusCode, payload,
                                        uniqueIps)
    IN CASE handled.result = "return" ->
              [trackWaitTime(incrementUsage(handled.world, r), r)
                  EXCEPT !.reqs[r].pc = "done"]
         [] handled.result = "RetryableError" -> handled.world
         [] OTHER -> [handled.world EXCEPT !.reqs[r].pc = "failed"]

\* the handler createOnProxyResHandler returns, for a response whose body
\* arrives whole: a streaming request answered with a status above 201 falls
\* back to the blocking handler
createOnProxyResHandler(w, r, statusCode, payload, headers, uniqueIps) ==
    LET reverted == [w EXCEPT !.reqs[r] = revert(@)]
        blocking == IF statusCode > 201
                    THEN [reverted EXCEPT !.reqs[r].isStreaming = FALSE]
                    ELSE reverted
    IN responseStack(blocking, r, statusCode, payload, headers, uniqueIps)

(***************************************************************************)
(* SpecClassify: a request is in flight with a key of some provider, a     *)
(* second request of the same or of another client may be waiting, and the *)
(* upstream service answers with a status code and a body.  The classifier *)
(* reads the provider from the key the request holds (req.key.service).    *)
(***************************************************************************)
Providers == Services \cup {"gcp", "google-ai"}

StatusCodes == {200, 400, 401, 403, 404, 429, 503}

ErrorBody(code, type, message, status, reason) ==
    [json |-> TRUE, code |-> code, type |-> type, message |-> message,
     status |-> status, reason |-> reason]

NotJson == [ErrorBody("", "", "", "", "") EXCEPT !.json = FALSE]

\* error bodies the providers are known to send, by the fields the handlers
\* test
ErrorPayloads ==
    { NotJson,
      ErrorBody("", "", "", "", ""),
      ErrorBody("content_filter", "", "", "", ""),
      ErrorBody("insufficient_quota", "insufficient_quota", "", "", ""),
      ErrorBody("billing_hard_limit_reached", "invalid_request_error", "",
                "", ""),
      ErrorBody("", "access_terminated", "", "", ""),
      ErrorBody("", "billing_not_active", "", "", ""),
      ErrorBody("", "requests", "", "", ""),
      ErrorBody("", "requests", "on requests per day", "", ""),
      ErrorBody("", "tokens", "", "", ""),
      ErrorBody("429", "", "", "", ""),
      ErrorBody("", "ThrottlingException", "", "", ""),
      ErrorBody("", "UnrecognizedClientException", "", "", ""),
      ErrorBody("", "AccessDeniedException", "", "", ""),
      ErrorBody("", "AccessDeniedException", "specified model ID", "", ""),
      ErrorBody("", "invalid_request_error",
                "prompt must start with Human: turn", "", ""),
      ErrorBody("", "invalid_request_error", "usage blocked until", "", ""),
      ErrorBody("", "invalid_request_error", "credit balance is too low",
                "", ""),
      ErrorBody("", "invalid_request_error",
                "organization has been disabled", "", ""),
      ErrorBody("", "RESOURCE_EXHAUSTED", "", "RESOURCE_EXHAUSTED", ""),
      ErrorBody("", "", "", "INVALID_ARGUMENT", "API_KEY_INVALID"),
      ErrorBody("", "", "please enable billing", "FAILED_PRECONDITION", "") }

\* the request as proceed() leaves it once get() has returned key h
Dispatched(q, h) ==
    [finalizeBody(setHeader(setKey(stripHeaders(q), h), "Authorization", h))
        EXCEPT !.pc = "inflight"]

InitClassify ==
    /\ now = 0
    /\ calls = 0
    /\ config = [checkKeys |-> FALSE, allowAwsLogging |-> FALSE]
    /\ users = [u \in Identities |-> [promptCount |-> 0, tokenCount |-> 0]]
    /\ snapshot = Content(NewRequest("r1"))
    /\ waitStats = NoWaitStats
    /\ handles = NoHandle
    /\ checker = NoCheck
    /\ \E svc \in Providers :
          keys = [h \in KeyIds |->
                    IF h = KeyOrder[1]
                    THEN throttle(svc, [NewKey(svc) EXCEPT !.lastUsed = now])
                    ELSE NewKey(None)]
    /\ \E stream \in BOOLEAN : \E rival \in Identities \cup {None} :
          LET inflight == Dispatched([NewRequest("r1") EXCEPT
                                         !.identity = "u1",
                                         !.isStreaming = stream,
                                         !.bodyStream = stream,
                                         !.preprocessorRuns = 1,
                                         !.dequeueCount = 1,
                                         !.mutatorRuns = 1,
                                         !.headersSent = stream,
                                         !.onAborted = TRUE],
                                     KeyOrder[1])
              idle == [r \in Reqs |->
                         IF r = "r1" THEN inflight ELSE NewRequest(r)]
              start == [reqs |-> idle, queue |-> <<>>, keys |-> keys,
                        users |-> users, waitTimes |-> <<>>]
              waiting == IF rival = None THEN start
                         ELSE enqueuePush([start EXCEPT
                                              !.reqs["r2"].identity = rival],
                                          "r2")
          IN reqs = waiting.reqs /\ queue = waiting.queue

\* the upstream service answers the request in flight
Answer(r, statusCode, payload, headers, uniqueIps) ==
    /\ reqs[r].pc = "inflight"
    /\ statusCode < 400 => payload = ErrorBody("", "", "", "", "")
    /\ Becomes(createOnProxyResHandler(World, r, statusCode, payload, headers,
                                       uniqueIps))

NextClassify ==
    \/ \E r \in Reqs : \E statusCode \in StatusCodes :
          \E payload \in ErrorPayloads : \E headers \in UpstreamHeaders :
          \E uniqueIps \in UniqueIpCounts :
             Answer(r, statusCode, payload, headers, uniqueIps)
    \/ \E r \in Reqs : Close(r)
    \/ Elapse

SpecClassify == InitClassify /\ [][NextClassify]_vars

(***************************************************************************)
(* Properties of the response classifier (checked under SpecClassify).     *)
(* Each speaks of the world the response handler produces from the current *)
(* state for a request in flight.                                          *)
(***************************************************************************)
InFlight == {r \in Reqs : reqs[r].pc = "inflight"}

AfterAnswer(r, statusCode, payload, uniqueIps) ==
    createOnProxyResHandler(World, r, statusCode, payload,
                            CHOOSE headers \in UpstreamHeaders : TRUE,
                            uniqueIps)

\* the error went to the client and the request was not put back
Surfaced(after, r) ==
    /\ after.reqs[r].pc = "failed"
    /\ ~InQueue(after.queue, r)
    /\ after.reqs[r].retryCount = reqs[r].retryCount

DisabledAndRevoked(after, r) ==
    /\ after.keys[reqs[r].key].isDisabled
    /\ after.keys[reqs[r].key].isRevoked

C14_ForbiddenRevokesKey ==
    \A r \in InFlight : \A payload \in ErrorPayloads :
    \A uniqueIps \in UniqueIpCounts :
        (payload.json /\ payload.message # "specified model ID")
        => DisabledAndRevoked(AfterAnswer(r, 403, payload, uniqueIps), r)

\* C15: when the classifier handles an upstream error response without
\* retrying it, an error is sent to the client and the rest of the pipeline
\* stops: no usage is recorded and the client gets no success response.
C15_HandledErrorStopsPipeline ==
    \A r \in InFlight : \A statusCode \in StatusCodes :
    \A payload \in ErrorPayloads : \A uniqueIps \in UniqueIpCounts :
        LET after == AfterAnswer(r, statusCode, payload, uniqueIps)
        IN (statusCode >= 400 /\ after.reqs[r].pc # "queued")
           => /\ after.reqs[r].pc = "failed"
              /\ after.reqs[r].usageCount = reqs[r].usageCount
              /\ after.users = users
              /\ after.keys[reqs[r].key].promptCount
                    = keys[reqs[r].key].promptCount

\* the error bodies by which each provider reports that the key's quota or
\* billing is exhausted
ReportsQuotaOrBilling(service, statusCode, payload) ==
    CASE service = "openai" ->
            \/ statusCode = 429
               /\ payload.type \in {"insufficient_quota", "billing_not_active"}
            \/ statusCode \in {400, 429}
               /\ payload.code = "billing_hard_limit_reached"
               /\ payload.type = "invalid_request_error"
      [] service \in {"aws", "gcp"} ->
            /\ statusCode = 400
            /\ payload.message \in {"usage blocked until",
                                    "credit balance is too low"}
      [] service = "google-ai" ->
            /\ statusCode = 400
            /\ payload.status = "FAILED_PRECONDITION"
            /\ payload.message = "please enable billing"
      [] OTHER -> FALSE

\* C16: when an upstream error reports quota or billing exhaustion for the
\* assigned key, for any provider, the key is disabled but not marked
\* revoked, and the error is surfaced without retry.
C16_QuotaDisablesWithoutRevoking ==
    \A r \in InFlight : \A statusCode \in StatusCodes :
    \A payload \in ErrorPayloads : \A uniqueIps \in UniqueIpCounts :
        LET after == AfterAnswer(r, statusCode, payload, uniqueIps)
        IN ReportsQuotaOrBilling(keys[reqs[r].key].service, statusCode,
                                 payload)
           => /\ after.keys[reqs[r].key].isDisabled
              /\ ~after.keys[reqs[r].key].isRevoked
              /\ Surfaced(after, r)

\* the part of C16 the code keeps: the quota and billing errors of OpenAI and
\* of the Claude providers disable the key without revoking it
QuotaDisablesWithoutRevokingExceptGoogle ==
    \A r \in InFlight : \A statusCode \in StatusCodes :
    \A payload \in ErrorPayloads : \A uniqueIps \in UniqueIpCounts :
        LET after == AfterAnswer(r, statusCode, payload, uniqueIps)
            service == keys[reqs[r].key].service
        IN (service # "google-ai"
            /\ ReportsQuotaOrBilling(service, statusCode, payload))
           => /\ after.keys[reqs[r].key].isDisabled
              /\ ~after.keys[reqs[r].key].isRevoked
              /\ Surfaced(after, r)

(***************************************************************************)
(* SpecErr: the queue of Spec with the error paths: a preprocessor may     *)
(* throw, the mutators fail when no key is left, and the upstream service  *)
(* answers with any status code and error body.                            *)
(***************************************************************************)
\* executePreprocessors when a preprocessor throws: the chain stops there,
\* the error is sent (over an event stream if the client asked for one) and
\* the queue middleware is never reached
executePreprocessorsThrowing(w, r, identity, stream) ==
    [w EXCEPT !.reqs[r].identity = identity,
              !.reqs[r].startTime = now,
              !.reqs[r].retryCount = 0,
              !.reqs[r].bodyStream = stream,
              !.reqs[r].headersSent = stream,
              !.reqs[r].preprocessorRuns = @ + 1,
              !.reqs[r].pc = "rejected"]

Reject(r, identity, stream) ==
    /\ reqs[r].pc = "idle"
    /\ Becomes(executePreprocessorsThrowing(World, r, identity, stream))

\* a pool in which the Mistral key has been disabled
InitErr ==
    /\ now = 0
    /\ calls = 0
    /\ config = [checkKeys |-> FALSE, allowAwsLogging |-> FALSE]
    /\ keys \in {RoutePool,
                 [RoutePool EXCEPT ![KeyOrder[2]] = disable(@)]}
    /\ IdleRequests

\* the error bodies of the providers of RoutePool, OpenAI and Mistral
RoutePayloads ==
    {payload \in ErrorPayloads :
        /\ payload.status = ""
        /\ payload.message \in {"", "on requests per day"}
        /\ payload.type \notin {"ThrottlingException", "AccessDeniedException",
                                "UnrecognizedClientException"}}

\* the answer may put the request back at most MaxRetries times
AnswerWithinRetries(r, statusCode, payload, headers, uniqueIps) ==
    /\ Answer(r, statusCode, payload, headers, uniqueIps)
    /\ reqs'[r].retryCount <= MaxRetries

NextErr ==
    \/ \E r \in Reqs : \E identity \in IdentitiesOf(r) :
          \E stream \in StreamOptions(r) :
             Arrive(r, identity, stream, FALSE, 1)
    \/ \E r \in Reqs : \E identity \in IdentitiesOf(r) :
          \E stream \in StreamOptions(r) : Reject(r, identity, stream)
    \/ \E r \in Reqs : Close(r)
    \/ Tick
    \/ \E r \in Reqs : \E statusCode \in StatusCodes :
          \E payload \in RoutePayloads : \E headers \in UpstreamHeaders :
             AnswerWithinRetries(r, statusCode, payload, headers, 1)
    \/ \E r \in Reqs : \E headers \in UpstreamHeaders :
          \E hasEvents \in BOOLEAN :
             Respond(r, "stream-retryable", headers, hasEvents, 1)
    \/ Elapse

SpecErr == InitErr /\ [][NextErr]_vars

(***************************************************************************)
(* Properties of the error paths (checked under SpecErr).                  *)
(***************************************************************************)
\* the kinds of upstream error the classification table marks "re-enqueue":
\* a rate limit or throttling 429 that is not a daily quota, and the 400 of a
\* Claude key that wants the preamble
RetryableKind(service, statusCode, payload) ==
    /\ payload.json
    /\ CASE service = "openai" ->
              /\ statusCode = 429
              /\ payload.type \in {"requests", "tokens"}
              /\ payload.message # "on requests per day"
         [] service = "mistral-ai" -> statusCode = 429 /\ payload.code = "429"
         [] service = "aws" ->
              \/ statusCode = 429 /\ payload.type = "ThrottlingException"
              \/ statusCode = 400
                 /\ payload.message = "prompt must start with Human: turn"
         [] service = "gcp" ->
              \/ statusCode = 429 /\ payload.type = "RESOURCE_EXHAUSTED"
              \/ statusCode = 400
                 /\ payload.message = "prompt must start with Human: turn"
         [] service = "google-ai" ->
              statusCode = 429 /\ payload.status = "RESOURCE_EXHAUSTED"
         [] OTHER -> FALSE

\* the kinds C12 names as never retried: 401, the daily quota, and exhausted
\* quota or billing
NeverRetriedKind(service, statusCode, payload) ==
    \/ statusCode = 401
    \/ /\ service = "openai"
       /\ statusCode = 429
       /\ payload.type \in {"requests", "tokens"}
       /\ payload.message = "on requests per day"
    \/ payload.json /\ ReportsQuotaOrBilling(service, statusCode, payload)

\* C12: a request is re-enqueued only by the response handler and only for
\* an upstream error of a retryable kind; an error inside a preprocessor or a
\* mutator, and an upstream 401, daily-quota 429 or quota/billing error, is
\* surfaced to the client and never puts the request back in the queue.
C12_OnlyRetryableErrorsRequeue ==
    /\ \A r \in InFlight : \A statusCode \in StatusCodes :
       \A payload \in RoutePayloads :
          LET after == AfterAnswer(r, statusCode, payload, 1)
              service == keys[reqs[r].key].service
          IN /\ (after.reqs[r].retryCount # reqs[r].retryCount
                 \/ InQueue(after.queue, r))
                => RetryableKind(service, statusCode, payload)
             /\ NeverRetriedKind(service, statusCode, payload)
                => Surfaced(after, r)
    /\ LET after == processQueue(World)
       IN \A r \in Reqs :
             /\ after.reqs[r].retryCount = reqs[r].retryCount
             /\ after.reqs[r].mutatorRuns # reqs[r].mutatorRuns
                => /\ ~InQueue(after.queue, r)
                   /\ after.reqs[r].pc \in {"inflight", "failed"}
                   /\ after.reqs[r].pc = "inflight"
                      <=> after.reqs[r].key # None
    /\ \A r \in Reqs : \A identity \in Identities : \A stream \in BOOLEAN :
          reqs[r].pc = "idle"
          => LET after == executePreprocessorsThrowing(World, r, identity,
                                                       stream)
             IN /\ after.reqs[r].pc = "rejected"
                /\ after.reqs[r].retryCount = 0
                /\ ~InQueue(after.queue, r)

\* a request has been retried and waits again, while another one was failed
\* by its mutators for want of a key
C12_Witness ==
    \E r \in Reqs : \E other \in Reqs :
        /\ reqs[r].retryCount > 0
        /\ InQueue(queue, r)
        /\ reqs[other].pc = "failed"
        /\ reqs[other].key = None
        /\ reqs[other].mutatorRuns = 1

\* C18: over the lifetime of a request, for any number of re-enqueues, the
\* preprocessor chain has run exactly once, and the mutator chain has run
\* once for every dequeue.
C18_PreprocessOnceMutatePerDequeue ==
    \A r \in Reqs :
        /\ reqs[r].pc # "idle" => reqs[r].preprocessorRuns = 1
        /\ reqs[r].mutatorRuns = reqs[r].dequeueCount
        /\ reqs[r].pc \in {"inflight", "done"}
           => reqs[r].dequeueCount = reqs[r].retryCount + 1

C18_Witness ==
    \E r \in Reqs :
        /\ reqs[r].retryCount > 0
        /\ reqs[r].pc = "inflight"
        /\ reqs[r].preprocessorRuns = 1
        /\ reqs[r].mutatorRuns = 2

(***************************************************************************)
(* SpecWait: requests arrive, are dispatched and answered successfully,    *)
(* while the interval timer recomputes the wait-time estimates.            *)
(***************************************************************************)
RECURSIVE SumWaits(_)
SumWaits(waits) ==
    IF waits = <<>> THEN 0
    ELSE (Head(waits).end - Head(waits).start) + SumWaits(Tail(waits))

\* calculateWaitTime(partition) at time t: the statistics after the call and
\* the value it returns, (historicalEma + currentEma) / 2 of the EMAs as they
\* were before the call
calculateWaitTime(stats, w, partition, t) ==
    LET Recent(wait) == wait.partition = partition
                        /\ t - wait.end < RECENT_WINDOW
        recentWaits == SelectSeq(stats.waitTimes, Recent)
        recentAverage ==
            IF Len(recentWaits) > 0
            THEN (SumWaits(recentWaits) * EmaScale) \div Len(recentWaits)
            ELSE 0
        historicalEma == stats.historicalEmas[partition]
        currentWaits ==
            {t - w.reqs[w.queue[i]].startTime : i \in
                {j \in 1..Len(w.queue) :
                    getModelFamilyForRequest(w.queue[j]) = partition}}
        longestCurrentWait ==
            IF currentWaits = {} THEN 0
            ELSE Max(CHOOSE x \in currentWaits :
                        \A y \in currentWaits : y <= x, 0)
        currentEma == stats.currentEmas[partition]
    IN [stats |->
           [stats EXCEPT
              !.historicalEmas[partition] =
                  ALPHA_HISTORICAL_TENTHS * (recentAverage \div 10)
                  + (10 - ALPHA_HISTORICAL_TENTHS) * (historicalEma \div 10),
              !.currentEmas[partition] =
                  ALPHA_CURRENT_TENTHS
                      * ((longestCurrentWait * EmaScale) \div 10)
                  + (10 - ALPHA_CURRENT_TENTHS) * (currentEma \div 10)],
        value |-> (historicalEma \div 2) + (currentEma \div 2)]

RECURSIVE EstimateLoop(_, _, _, _)
\* MODEL_FAMILIES.forEach(f => estimates.set(f, calculateWaitTime(f)))
EstimateLoop(stats, w, t, i) ==
    IF i > Len(MODEL_FAMILIES) THEN stats
    ELSE LET called == calculateWaitTime(stats, w, MODEL_FAMILIES[i], t)
         IN EstimateLoop([called.stats EXCEPT
                             !.estimates[MODEL_FAMILIES[i]] = called.value],
                         w, t, i + 1)

\* the callback of the wait-time interval, run at time t
estimateWaitTimes(stats, w, t) ==
    [EstimateLoop(stats, w, t, 1) EXCEPT
        !.nextEstimate = t + WAIT_TIME_INTERVAL]

\* the clock of SpecWait moves by the key reuse delay and stops at each tick
\* of the interval timer
WaitHorizon == MaxEstimates * WAIT_TIME_INTERVAL

ElapseWait ==
    /\ now + OPENAI_KEY_REUSE_DELAY <= WaitHorizon
    /\ now + OPENAI_KEY_REUSE_DELAY <= waitStats.nextEstimate
    /\ now' = now + OPENAI_KEY_REUSE_DELAY
    /\ UNCHANGED <<config, keys, calls, reqVars>>

Estimate ==
    /\ now = waitStats.nextEstimate
    /\ waitStats' = estimateWaitTimes(waitStats, World, now)
    /\ UNCHANGED <<keyVars, reqs, queue, users, snapshot, handles, checker>>

NextWait ==
    \/ \E r \in Reqs : \E identity \in IdentitiesOf(r) :
          Arrive(r, identity, FALSE, FALSE, 1)
    \/ Tick
    \/ \E r \in Reqs : \E headers \in UpstreamHeaders :
          Answer(r, 200, ErrorBody("", "", "", "", ""), headers, 1)
    \/ Estimate
    \/ ElapseWait

SpecWait == Init /\ [][NextWait]_vars

\* every request of the family has been answered or turned away: none is in
\* the queue and none can arrive or come back
Settled(family) ==
    \A r \in Reqs :
        getModelFamilyForRequest(r) = family
        => reqs[r].pc \in {"done", "failed", "rejected", "closed"}

\* C17: once all requests of a family have drained from the queue and no new
\* request of that family arrives, the estimate of the family set by one tick
\* of the interval timer is not above the estimate set by the tick before it.
C17_EstimateNonIncreasingWhenDrained ==
    \A family \in FamilyNames :
        Settled(family)
        => LET first == estimateWaitTimes(waitStats, World,
                                          waitStats.nextEstimate)
               second == estimateWaitTimes(first, World, first.nextEstimate)
           IN second.estimates[family] <= first.estimates[family]

(***************************************************************************)
(* SpecFair: two clients send an OpenAI request of the same family; one    *)
(* OpenAI key serves them, and the upstream answers with success or with a *)
(* rate-limit error that puts the request back in the queue.               *)
(***************************************************************************)
Rivals == {"r1", "r3"}

RivalIdentity(r) == IF r = "r1" THEN "u1" ELSE "u2"

RateLimitBody == ErrorBody("", "requests", "", "", "")

NextFair ==
    \/ \E r \in Rivals : Arrive(r, RivalIdentity(r), TRUE, FALSE, 1)
    \/ Tick
    \/ \E r \in Rivals : \E headers \in UpstreamHeaders :
          AnswerWithinRetries(r, 200, ErrorBody("", "", "", "", ""),
                              headers, 1)
    \/ \E r \in Rivals : \E headers \in UpstreamHeaders :
          AnswerWithinRetries(r, 429, RateLimitBody, headers, 1)
    \/ \E r \in Rivals : \E headers \in UpstreamHeaders :
          \E hasEvents \in BOOLEAN :
             Respond(r, "stream-retryable", headers, hasEvents, 1)
    \/ \E r \in Rivals : Close(r)
    \/ Elapse

SpecFair == Init /\ [][NextFair]_vars

\* C19: a re-enqueued request gets no scheduling advantage from being a
\* retry: whenever the queue would hand it out first after the re-enqueue, it
\* would also hand out first a fresh request of the same weight that entered
\* the queue at the moment of the re-enqueue.
C19_RetryHasNoAdvantage ==
    \A r \in InFlight : \A uniqueIps \in {1} :
        LET after == AfterAnswer(r, 429, RateLimitBody, uniqueIps)
            fresh == [after EXCEPT !.reqs[r].startTime = now]
            partition == getModelFamilyForRequest(r)
        IN (InQueue(after.queue, r) /\ dequeued(after, partition) = r)
           => dequeued(fresh, partition) = r

(***************************************************************************)
(* SpecFlags: the isDisabled and isRevoked flags of the keys of one        *)
(* provider under disable, update, recheck, clone and the key checker.     *)
(***************************************************************************)
\* what the key checkers pass to update() when a check fails, next to the
\* patches of a successful check
FlagPatches(service) ==
    CASE service = "aws" ->
            { [isDisabled |-> TRUE],
              [isDisabled |-> TRUE, isRevoked |-> TRUE],
              [lastChecked |-> now] }
      [] service = "gcp" ->
            { [isDisabled |-> TRUE],
              [isDisabled |-> TRUE, isRevoked |-> TRUE],
              [lastChecked |-> now] }
      [] service = "google-ai" ->
            { [isDisabled |-> TRUE, isRevoked |-> TRUE],
              [lastChecked |-> now] }
      [] OTHER -> {}

\* faulty variant: the recheck re-enables the key and leaves it revoked
recheckKeepingRevoked(k) ==
    IF k.service \in {"openai", "aws", "gcp"}
    THEN update(k, [lastChecked |-> 0, isDisabled |-> FALSE])
    ELSE k

\* recheck() for one key: the Mistral and Google AI providers do nothing
recheck(k) ==
    IF k.service \in {"openai", "aws", "gcp"}
    THEN update(k, [lastChecked |-> 0, isDisabled |-> FALSE,
                    isRevoked |-> FALSE])
    ELSE k

\* the copy clone() makes of an OpenAI key for another organization
clone(k) ==
    [k EXCEPT !.isDisabled = FALSE, !.isRevoked = FALSE, !.lastChecked = 0]

InitFlags ==
    /\ now = 0
    /\ calls = 0
    /\ config = [checkKeys |-> TRUE, allowAwsLogging |-> FALSE]
    /\ \E svc \in Providers : \E pool \in Pools :
          keys = [h \in KeyIds |->
                    IF h \in pool THEN NewKey(svc) ELSE NewKey(None)]
    /\ IdleRequests

\* keyPool.disable(key, reason), called by the response handlers
PoolDisable(h, reason) ==
    /\ keys[h].service \in Providers
    /\ keys' = keyPoolDisable(keys, h, reason)
    /\ UNCHANGED <<now, config, calls, reqVars>>

\* the provider's disable(key)
ProviderDisable(h) ==
    /\ keys[h].service \in Providers
    /\ keys' = [keys EXCEPT ![h] = disable(keys[h])]
    /\ UNCHANGED <<now, config, calls, reqVars>>

\* update(hash, patch), called by the checker of the provider
CheckerUpdate(h, patch) ==
    /\ keys[h].service \in Providers
    /\ keys' = [keys EXCEPT ![h] = update(keys[h], patch)]
    /\ UNCHANGED <<now, config, calls, reqVars>>

\* recheck(): every key of the provider
Recheck ==
    /\ keys' = [h \in KeyIds |-> recheck(keys[h])]
    /\ UNCHANGED <<now, config, calls, reqVars>>

\* clone(keyHash, [orgId]): the copy joins the pool in the free slot
Clone(h, slot) ==
    /\ keys[h].service = "openai"
    /\ keys[slot].service = None
    /\ keys' = [keys EXCEPT ![slot] = clone(keys[h])]
    /\ UNCHANGED <<now, config, calls, reqVars>>

NextFlags ==
    \/ \E h \in KeyIds : \E reason \in {"quota", "revoked"} :
          PoolDisable(h, reason)
    \/ \E h \in KeyIds : ProviderDisable(h)
    \/ \E h \in KeyIds :
          \E patch \in FlagPatches(keys[h].service)
                          \cup (IF keys[h].service \in Services
                                THEN CheckerPatches(keys[h].service)
                                ELSE {}) :
             CheckerUpdate(h, patch)
    \/ Recheck
    \/ \E h \in KeyIds : \E slot \in KeyIds : Clone(h, slot)
    \/ \E dt \in TimeSteps : AdvanceTime(dt)

SpecFlags == InitFlags /\ [][NextFlags]_vars

\* C20: in every reachable state of the key pool, after any sequence of
\* disable, update, recheck, clone and key-checker updates, a key with
\* isRevoked = true also has isDisabled = true.
C20_RevokedImpliesDisabled ==
    \A h \in KeyIds : keys[h].isRevoked => keys[h].isDisabled

\* a revoked key and its clone, which is enabled
C20_Witness ==
    \E h \in KeyIds : \E other \in KeyIds :
        /\ keys[h].isRevoked
        /\ keys[h].isDisabled
        /\ keys[other].service = "openai"
        /\ ~keys[other].isDisabled
        /\ now > 0

(***************************************************************************)
(* Rate-limit window of a key (SpecKeys)                                   *)
(***************************************************************************)
\* C21: in every reachable state of the key pool, after any sequence of
\* get (throttle), markRateLimited and updateRateLimits calls, every key has
\* rateLimitedUntil >= rateLimitedAt.
C21_UntilNotBeforeAt ==
    \A h \in KeyIds : keys[h].rateLimitedUntil >= keys[h].rateLimitedAt

\* an OpenAI key throttled by a get() after the clock moved, whose window
\* was then moved by the reset headers of a response
C21_Witness ==
    \E h \in KeyIds :
        /\ keys[h].service = "openai"
        /\ keys[h].rateLimitedAt > 0
        /\ keys[h].lastUsed = keys[h].rateLimitedAt
        /\ keys[h].rateLimitedUntil = keys[h].rateLimitedAt + 2000

(***************************************************************************)
(* SpecCopy: the records get() and list() hand to callers.  A returned     *)
(* record is { ...key }: its own fields are copies, its arrays             *)
(* (modelFamilies, modelIds, inferenceProfileIds) are the arrays of the    *)
(* pool's record until update() gives the pool's record new ones.          *)
(***************************************************************************)
NestedFields == {"modelFamilies", "modelIds", "inferenceProfileIds"}

\* importPrivateKey(key, rawPrivateKey): the imported key is kept on the record
importPrivateKey(k) == [k EXCEPT !.privateKey = "private key of " \o k.key]

\* the GCP checker's maybeRefreshAccessToken(key), on the pool's record; the
\* token endpoint answers with a lifetime of one second
maybeRefreshAccessToken(k) ==
    IF k.accessToken # "" /\ k.accessTokenExpiresAt >= now THEN k
    ELSE update(IF k.privateKey = Absent THEN importPrivateKey(k) ELSE k,
                [accessToken |-> "token", accessTokenExpiresAt |-> now + 950])

\* list(): this.keys.map((k) => Object.freeze({ ...k, key: undefined }))
list(ks, service) ==
    LET mine == ProviderKeys(ks, service)
    IN [i \in 1..Len(mine) |-> Assign(ks[mine[i]], [key |-> Absent])]

\* the caller's view of one returned record
Handle(h, record, frozen) ==
    [hash |-> h, record |-> record, frozen |-> frozen, shared |-> NestedFields]

\* the caller assigns a field of the returned record: ignored when frozen
callerAssign(w, field, value) ==
    IF w.handles.frozen THEN w
    ELSE [w EXCEPT !.handles.record[field] = value]

\* the caller pushes onto an array of the returned record
callerPush(w, field, item) ==
    LET h == w.handles.hash
        pushed == [w EXCEPT !.handles.record[field] = @ \cup {item}]
    IN IF field \in w.handles.shared
       THEN [pushed EXCEPT !.keys[h][field] = @ \cup {item}]
       ELSE pushed

Handed == [keys |-> keys, handles |-> handles]

InitCopy ==
    /\ now = 0
    /\ calls = 0
    /\ config = [checkKeys |-> TRUE, allowAwsLogging |-> FALSE]
    /\ \E svc \in Providers : \E pool \in Pools :
          keys = [h \in KeyIds |->
                    IF h \in pool THEN NewKey(svc) ELSE NewKey(None)]
    /\ IdleRequests

CopyUnchanged ==
    UNCHANGED <<now, config, reqs, queue, users, snapshot, waitStats, checker>>

\* get(model): the caller receives { ...selectedKey }
CGet(service, model) ==
    LET h == selectedKey(keys, service, model)
    IN /\ h # None
       /\ keys' = KeysAfterGet(keys, service, h)
       /\ handles' = Handle(h, keys'[h], FALSE)
       /\ Called /\ CopyUnchanged

\* list(): the caller looks at the i-th record of the listing
CList(service, i) ==
    /\ i \in DOMAIN list(keys, service)
    /\ handles' = Handle(ProviderKeys(keys, service)[i],
                         list(keys, service)[i], TRUE)
    /\ Called /\ UNCHANGED keys /\ CopyUnchanged

\* update(hash, patch) by the checker: patched arrays are new arrays
CUpdate(h, patch) ==
    /\ keys[h].service \in Services
    /\ keys' = [keys EXCEPT ![h] = update(keys[h], patch)]
    /\ handles' = IF handles.hash = h
                  THEN [handles EXCEPT !.shared = @ \ DOMAIN patch]
                  ELSE handles
    /\ Called /\ CopyUnchanged

\* the GCP checker refreshes the access token of a key
RefreshAccessToken(h) ==
    /\ keys[h].service = "gcp"
    /\ keys' = [keys EXCEPT ![h] = maybeRefreshAccessToken(keys[h])]
    /\ Called /\ UNCHANGED handles /\ CopyUnchanged

CallerAssigns(field, value) ==
    /\ handles.hash # None
    /\ keys' = callerAssign(Handed, field, value).keys
    /\ handles' = callerAssign(Handed, field, value).handles
    /\ Called /\ CopyUnchanged

CallerPushes(field, item) ==
    /\ handles.hash # None
    /\ keys' = callerPush(Handed, field, item).keys
    /\ handles' = callerPush(Handed, field, item).handles
    /\ Called /\ CopyUnchanged

NextCopy ==
    \/ \E svc \in Services : \E model \in ModelsOf(svc) : CGet(svc, model)
    \/ \E svc \in Providers : \E i \in 1..Len(KeyOrder) : CList(svc, i)
    \/ \E h \in KeyIds :
          \E patch \in (IF keys[h].service \in Services
                        THEN CheckerPatches(keys[h].service) ELSE {}) :
             CUpdate(h, patch)
    \/ \E h \in KeyIds : RefreshAccessToken(h)
    \/ CallerAssigns("isDisabled", TRUE)
    \/ \E field \in NestedFields : CallerPushes(field, "pushed by the caller")
    \/ \E dt \in TimeSteps : AdvanceTime(dt)

SpecCopy == InitCopy /\ [][NextCopy]_vars

\* the fields of a key record that hold the credential: the configured
\* secret, the private key imported from it and the bearer token issued for it
SecretFields == {"key", "privateKey", "accessToken"}

\* C22: no record returned by list(), for any provider, contains the
\* credential's secret material: every listed record is a copy whose secret
\* is cleared.
C22_ListedRecordsHoldNoSecret ==
    \A svc \in Providers : \A i \in DOMAIN list(keys, svc) :
        \A field \in SecretFields \cap DOMAIN list(keys, svc)[i] :
            list(keys, svc)[i][field] \in {Absent, ""}

\* the key field itself is cleared in every listing
ListedKeyFieldCleared ==
    \A svc \in Providers : \A i \in DOMAIN list(keys, svc) :
        list(keys, svc)[i].key = Absent

\* C23: records handed out by get() and list() are copies and never live
\* references: no change a caller makes to a returned record, including to
\* its nested collections such as modelFamilies or modelIds, changes the
\* pool's key state.
C23_CallerCannotChangePool ==
    handles.hash # None =>
        /\ callerAssign(Handed, "isDisabled", TRUE).keys = keys
        /\ \A field \in NestedFields :
              callerPush(Handed, field, "pushed by the caller").keys = keys

\* assigning a field of a returned record leaves the pool alone
CallerAssignLeavesPool ==
    handles.hash # None =>
        callerAssign(Handed, "isDisabled", TRUE).keys = keys

(***************************************************************************)
(* disable() twice (SpecFlags)                                             *)
(***************************************************************************)
\* C24: disable(key) is idempotent: calling it twice on the same key leaves
\* the pool in the same state as calling it once, whether the second call
\* follows at once or at a later time.
C24_DisableIdempotent ==
    \A h \in KeyIds :
        keys[h].service \in Providers =>
            /\ disable(disable(keys[h])) = disable(keys[h])
            /\ keys[h].isDisabled => disable(keys[h]) = keys[h]

\* an OpenAI key disabled by disable() at one time, seen at a later time
C24_Witness ==
    \E h \in KeyIds :
        /\ keys[h].service = "openai"
        /\ keys[h].isDisabled
        /\ ~keys[h].isRevoked
        /\ keys[h].lastChecked > 0
        /\ keys[h].lastChecked < now

(***************************************************************************)
(* The mutation log at dispatch (Spec)                                     *)
(***************************************************************************)
Logged(q, target) ==
    \E i \in 1..Len(q.mutations) : q.mutations[i].target = target

\* C25: for every dispatch that reaches the upstream call, the request's
\* mutation log at the moment the upstream call is initiated contains at
\* least the auth (credential) mutation and the body-finalizer mutation.
C25_DispatchLogsAuthAndBody ==
    LET after == processQueue(World)
    IN \A r \in Reqs :
          (reqs[r].pc # "inflight" /\ after.reqs[r].pc = "inflight")
              => /\ Logged(after.reqs[r], "api-key")
                 /\ Logged(after.reqs[r], "body")

\* a request sent upstream for the second time, with both mutations logged
C25_Witness ==
    \E r \in Reqs :
        /\ reqs[r].pc = "inflight"
        /\ reqs[r].retryCount > 0
        /\ Logged(reqs[r], "api-key")
        /\ Logged(reqs[r], "body")

(***************************************************************************)
(* SpecShare: two OpenAI requests of different model families, gpt4o (r1)  *)
(* and gpt4 (r4), served by the one OpenAI key of the pool.                *)
(***************************************************************************)
Sharers == {"r1", "r4"}

SharerIdentity(r) == IF r = "r1" THEN "u1" ELSE "u2"

NextShare ==
    \/ \E r \in Sharers : Arrive(r, SharerIdentity(r), TRUE, FALSE, 1)
    \/ Tick
    \/ \E r \in Sharers : \E headers \in UpstreamHeaders :
          AnswerWithinRetries(r, 200, ErrorBody("", "", "", "", ""),
                              headers, 1)
    \/ \E r \in Sharers : Close(r)
    \/ Elapse

SpecShare == Init /\ [][NextShare]_vars

\* the world in which the i-th request dequeued by a tick calls get(): the
\* requests dequeued before it have run their mutators
BeforeProceed(got, i) == ProceedLoop(got.world, SubSeq(got.reqs, 1, i - 1))

\* C26: the scheduler never hands out a key that is inside a throttle or
\* rate-limit window: whenever a request dispatched by the scheduler obtains
\* a key from get(), that key had rateLimitedUntil <= now immediately before
\* the call, including for requests of different families dequeued in the
\* same tick.
C26_DispatchedKeyIsFree ==
    LET got == DequeueLoop(World, 1, <<>>)
    IN \A i \in 1..Len(got.reqs) :
          LET r == got.reqs[i]
              before == BeforeProceed(got, i)
              h == selectedKey(before.keys, ReqService(r), ReqModel(r))
          IN h # None => before.keys[h].rateLimitedUntil <= now

\* the same key is never assigned to two requests less than KEY_REUSE_DELAY
\* apart
KeyReuseKeepsDelay ==
    \A r \in Reqs : \A other \in Reqs \ {r} :
        (/\ reqs[r].pc = "inflight" /\ reqs[other].pc = "inflight"
         /\ reqs[r].key = reqs[other].key
         /\ reqs[r].queueOutTime <= reqs[other].queueOutTime)
            => reqs[other].queueOutTime - reqs[r].queueOutTime
                   >= KEY_REUSE_DELAY(keys[reqs[r].key].service)

LexBefore(ctx, a, b) ==
    LET aRateLimited == now < a.rateLimitedUntil
        bRateLimited == now < b.rateLimitedUntil
        sameWindow == /\ aRateLimited = bRateLimited
                      /\ aRateLimited => a.rateLimitedUntil = b.rateLimitedUntil
    IN \/ ~aRateLimited /\ bRateLimited
       \/ aRateLimited /\ bRateLimited
             /\ a.rateLimitedUntil < b.rateLimitedUntil
       \/ sameWindow /\ CustomComparator(ctx, a, b) < 0
       \/ sameWindow /\ CustomComparator(ctx, a, b) = 0
             /\ a.lastUsed < b.lastUsed

\* the contexts of the prioritizeKeys calls get(model) can make
SortContexts ==
    UNION {{[service |-> svc, model |-> model, keys |-> keys] :
               model \in ModelsOf(svc)} :
           svc \in {keys[h].service : h \in KeyIds} \cap Services}

\* C28: prioritizeKeys orders any candidate set lexicographically: keys that
\* are not rate-limited come before rate-limited ones; among rate-limited
\* keys the earlier rateLimitedUntil comes first; remaining ties are broken by
\* the caller-supplied tiebreaker if given; and any ties still remaining are
\* broken by smaller lastUsed first.
C28_PrioritizeLexicographic ==
    \A ctx \in SortContexts :
        LET sorted == prioritizeKeys(ctx, ProviderKeys(keys, ctx.service))
        IN \A i \in 1..Len(sorted) : \A j \in 1..Len(sorted) :
              i < j => ~LexBefore(ctx, keys[sorted[j]], keys[sorted[i]])

\* the same order, leaving aside pairs of rate-limited keys whose
\* rateLimitedUntil is equal
PrioritizeLexicographicButEqualWindows ==
    \A ctx \in SortContexts :
        LET sorted == prioritizeKeys(ctx, ProviderKeys(keys, ctx.service))
        IN \A i \in 1..Len(sorted) : \A j \in 1..Len(sorted) :
              (/\ i < j
               /\ ~(/\ now < keys[sorted[i]].rateLimitedUntil
                    /\ keys[sorted[i]].rateLimitedUntil
                           = keys[sorted[j]].rateLimitedUntil))
                  => ~LexBefore(ctx, keys[sorted[j]], keys[sorted[i]])

(***************************************************************************)
(* The AWS provider's preference for inference profiles (SpecKeys)         *)
(***************************************************************************)
\* key.inferenceProfileIds.some((p) => p.includes(model))
HasProfileFor(k, model) ==
    \E p \in k.inferenceProfileIds : StrIncludes(p, model)

\* C29: when the AWS provider's get(model) chooses among eligible keys that
\* the rate-limit rules do not distinguish, a key whose inferenceProfileIds
\* contains the target model is preferred over a key whose inferenceProfileIds
\* does not.
C29_InferenceProfilePreferred ==
    \A model \in AwsModels :
        LET avail == availableKeys(keys, "aws", model)
            chosen == selectedKey(keys, "aws", model)
        IN \A i \in 1..Len(avail) :
              (/\ now >= keys[avail[i]].rateLimitedUntil
               /\ now >= keys[chosen].rateLimitedUntil
               /\ HasProfileFor(keys[avail[i]], model))
                  => HasProfileFor(keys[chosen], model)

(***************************************************************************)
(* SpecAzure: the Azure route, whose mutators are addAzureKey and          *)
(* finalizeSignedRequest.  r1's body is held as the record of the fields   *)
(* the mutators touch (req.body.stream is rewritten by proceed() before    *)
(* every chain and is held in bodyStream).  AzureOpenAIKeyProvider is not  *)
(* part of the sources: the key keyPool.get returns is an input here and   *)
(* the pool is left as it is.                                              *)
(***************************************************************************)
AzureHeaderNames == HeaderNames \cup {"host", "content-type", "api-key"}

\* Object.keys(signedRequest.headers), in insertion order: the names the
\* routes sign, of which a signed request carries three
SignedHeaderOrder == <<"host", "content-type", "api-key", "authorization">>

\* req.body.model.startsWith("azure-") ? req.body.model : `azure-${...}`
azureModel(model) ==
    IF model \in {"azure-gpt-4", "azure-gpt-35-turbo"} THEN model
    ELSE "azure-" \o model

\* JSON.stringify(req.body)
stringify(body) ==
    "{model:" \o body.model
        \o (IF body.logprobs = Absent THEN ""
            ELSE ",logprobs:" \o body.logprobs)
        \o "}"

AzureRequests ==
    { [NewRequest("r1") EXCEPT
          !.headers = [n \in AzureHeaderNames |->
                          CASE n = "origin" -> "https://client.example"
                            [] n = "host" -> "proxy.example"
                            [] n = "content-type" -> "application/json"
                            [] n = "api-key" -> credential
                            [] OTHER -> Absent],
          !.body = [model |-> model, logprobs |-> logprobs],
          !.url = url] :
        model \in {"gpt-4", "azure-gpt-4"},
        logprobs \in {Absent, "true"},
        credential \in {Absent, "client"},
        url \in InboundUrls }

addAzureKey(q, h) ==
    LET model == azureModel(q.body.model)
        named == [q EXCEPT !.body.model = model]
        keyed == setKey(named, h)
        plain == IF keyed.body.logprobs # Absent
                 THEN [keyed EXCEPT !.body.logprobs = Absent]
                 ELSE keyed
    IN setSignedRequest(plain,
           [ path |-> "/openai/deployments/dep/chat/completions"
                          \o "?api-version=2023-09-01-preview",
             headers |-> [n \in {"host", "content-type", "api-key"} |->
                             CASE n = "host" -> "res.openai.azure.com"
                               [] n = "content-type" -> "application/json"
                               [] n = "api-key" -> h],
             body |-> stringify(plain.body) ])

RECURSIVE RemoveSignedHeaders(_, _)
\* Object.keys(headers).forEach((key) => manager.removeHeader(key))
RemoveSignedHeaders(q, i) ==
    IF i > Len(SignedHeaderOrder) THEN q
    ELSE IF SignedHeaderOrder[i] \notin DOMAIN q.signedRequest.headers
    THEN RemoveSignedHeaders(q, i + 1)
    ELSE RemoveSignedHeaders(removeHeader(q, SignedHeaderOrder[i]), i + 1)

RECURSIVE SetSignedHeaders(_, _)
\* Object.entries(headers).forEach(([key, value]) => manager.setHeader(...))
SetSignedHeaders(q, i) ==
    IF i > Len(SignedHeaderOrder) THEN q
    ELSE IF SignedHeaderOrder[i] \notin DOMAIN q.signedRequest.headers
    THEN SetSignedHeaders(q, i + 1)
    ELSE SetSignedHeaders(
             setHeader(q, SignedHeaderOrder[i],
                       q.signedRequest.headers[SignedHeaderOrder[i]]),
             i + 1)

\* the path string of the signed request carries its own query part
finalizeSignedRequest(q) ==
    LET pathed == setPath(q, q.signedRequest.path)
        headed == SetSignedHeaders(RemoveSignedHeaders(pathed, 1), 1)
        serialized == q.signedRequest.body
    IN setBody(setHeader(headed, "Content-Length",
                         ToString(Len(serialized))),
               serialized)

\* req.proceed() of the Azure route, with the key the pool hands out
azureProceed(w, r, h) ==
    LET stream == w.reqs[r].isStreaming \/ w.reqs[r].bodyStream
        fresh == [w EXCEPT !.reqs[r].isStreaming = stream,
                           !.reqs[r].bodyStream = stream,
                           !.reqs[r].mutations = <<>>,
                           !.reqs[r].mutatorRuns = @ + 1]
    IN [fresh EXCEPT !.reqs[r] =
           [finalizeSignedRequest(addAzureKey(@, h)) EXCEPT
               !.pc = "inflight"]]

\* what a mutator chain starts from: headers, body and path of the request
ChainInput(q) == [headers |-> q.headers, body |-> q.body, url |-> q.url]

InitAzure ==
    /\ now = 0
    /\ calls = 0
    /\ config = [checkKeys |-> FALSE, allowAwsLogging |-> FALSE]
    /\ keys = RoutePool
    /\ queue = <<>>
    /\ users = [u \in Identities |-> [promptCount |-> 0, tokenCount |-> 0]]
    /\ waitStats = NoWaitStats
    /\ handles = NoHandle
    /\ checker = NoCheck
    /\ \E q \in AzureRequests :
          /\ reqs = [r \in Reqs |-> IF r = "r1" THEN q ELSE NewRequest(r)]
          /\ snapshot = Content(q)

\* the request passes the preprocessors and joins the queue
AzureArrive(stream) ==
    /\ reqs["r1"].pc = "idle"
    /\ LET stamped == [World EXCEPT !.reqs["r1"].identity = "u1",
                                    !.reqs["r1"].isStreaming = stream,
                                    !.reqs["r1"].bodyStream = stream,
                                    !.reqs["r1"].preprocessorRuns = @ + 1,
                                    !.reqs["r1"].startTime = now,
                                    !.reqs["r1"].retryCount = 0]
           joined == enqueue(stamped, "r1", FALSE, 1)
       IN Becomes(joined.world)

\* the scheduler takes the request off the queue and runs its chain; the
\* snapshot is what the first attempt's chain started from
AzureDispatch(h) ==
    /\ reqs["r1"].pc = "queued"
    /\ LET w == azureProceed(dequeue(World, "r1"), "r1", h)
       IN /\ reqs' = w.reqs
          /\ queue' = w.queue
    /\ snapshot' = IF reqs["r1"].mutatorRuns = 0 THEN Content(reqs["r1"])
                   ELSE snapshot
    /\ UNCHANGED <<keyVars, users, waitStats, handles, checker>>

\* a retryable upstream failure: changeManager.revert(), reenqueueRequest
AzureRetry ==
    /\ reqs["r1"].pc = "inflight"
    /\ reqs["r1"].retryCount < MaxRetries
    /\ Becomes(reenqueueRequest([World EXCEPT !.reqs["r1"] = revert(@)],
                                "r1", 1).world)

NextAzure ==
    \/ \E stream \in BOOLEAN : AzureArrive(stream)
    \/ \E h \in KeyIds : AzureDispatch(h)
    \/ AzureRetry

SpecAzure == InitAzure /\ [][NextAzure]_vars

\* C30: at the start of every attempt's mutator chain the request's headers,
\* body and path are identical to what they were at the start of the first
\* attempt's mutator chain.
C30_RetryStartsFromSameInput ==
    (/\ reqs["r1"].pc = "queued"
     /\ reqs["r1"].mutatorRuns >= 1)
        => /\ ChainInput(reqs["r1"]).headers = snapshot.headers
           /\ ChainInput(reqs["r1"]).body = snapshot.body
           /\ ChainInput(reqs["r1"]).url = snapshot.url

\* what the retry of an Azure request does start from: the headers of the
\* first attempt, its pathname without the query string, and its body with
\* the model renamed and logprobs removed
RetryStartsFromRenamedInput ==
    (/\ reqs["r1"].pc = "queued"
     /\ reqs["r1"].mutatorRuns >= 1)
        => /\ reqs["r1"].headers = snapshot.headers
           /\ reqs["r1"].url = Url(snapshot.url.path)
           /\ reqs["r1"].body = [model |-> azureModel(snapshot.body.model),
                                 logprobs |-> Absent]

(***************************************************************************)
(* SpecGcp: the GCP route (mutators signGcpRequest, finalizeSignedRequest)  *)
(* and the GCP key checker.  refreshGcpAccessToken is a network call: the   *)
(* caller is suspended at the await until the token endpoint answers.       *)
(***************************************************************************)
GcpModels ==
    {"claude-3-haiku@20240307", "claude-3-sonnet@20240229",
     "claude-3-opus@20240229", "claude-3-5-sonnet@20240620"}

getGcpModelFamily(model) ==
    IF model = "claude-3-opus@20240229" THEN "gcp-claude-opus"
    ELSE "gcp-claude"

\* the filter of GcpKeyProvider.get
GcpAvailable(k, model) ==
    LET neededFamily == getGcpModelFamily(model)
        needsSonnet35 == /\ model = "claude-3-5-sonnet@20240620"
                         /\ neededFamily = "gcp-claude"
        needsSonnet == /\ ~needsSonnet35
                       /\ model \in {"claude-3-sonnet@20240229",
                                     "claude-3-5-sonnet@20240620"}
                       /\ neededFamily = "gcp-claude"
        needsHaiku == /\ model = "claude-3-haiku@20240307"
                      /\ neededFamily = "gcp-claude"
    IN /\ ~k.isDisabled
       /\ (k.sonnetEnabled \/ ~needsSonnet)
       /\ (k.haikuEnabled \/ ~needsHaiku)
       /\ (k.sonnet35Enabled \/ ~needsSonnet35)
       /\ neededFamily \in k.modelFamilies

\* the hash GcpKeyProvider.get(model) selects; None when it throws
gcpSelectedKey(ks, model) ==
    LET Ok(h) == GcpAvailable(ks[h], model)
        avail == SelectSeq(ProviderKeys(ks, "gcp"), Ok)
    IN IF avail = <<>> THEN None
       ELSE prioritizeKeys([service |-> "gcp", model |-> model, keys |-> ks],
                           avail)[1]

\* !key.accessToken || Date.now() > key.accessTokenExpiresAt
tokenMissing(k) == k.accessToken = "" \/ now > k.accessTokenExpiresAt

\* keyPool.update(key, { accessToken, accessTokenExpiresAt }); the endpoint
\* grants a lifetime of one second
withFreshToken(k) ==
    update(k, [accessToken |-> "token", accessTokenExpiresAt |-> now + 950])

GcpHeaderNames == AzureHeaderNames \cup {"anthropic-version"}

\* signGcpRequest from manager.setKey on, with the key it holds
signWithKey(q, h) ==
    LET keyed == setKey([q EXCEPT !.signingKey = None], h)
        versioned == setHeader(keyed, "anthropic-version", "2023-06-01")
    IN setSignedRequest(versioned,
           [ path |-> "/v1/projects/p/locations/r/publishers/anthropic/models/"
                          \o q.body.model \o ":streamRawPredict",
             headers |-> [n \in {"host", "content-type", "authorization"} |->
                             CASE n = "host" -> "r-aiplatform.googleapis.com"
                               [] n = "content-type" -> "application/json"
                               [] n = "authorization" -> "Bearer token"],
             body |-> "{anthropic_version:vertex-2023-10-16}" ])

\* the rest of the chain once the key is signed in, then the proxy middleware
gcpSend(q, h) ==
    [finalizeSignedRequest(signWithKey(q, h)) EXCEPT !.pc = "inflight"]

\* req.proceed() of the GCP route up to the first await that suspends it
gcpProceed(w, r) ==
    LET stream == w.reqs[r].isStreaming \/ w.reqs[r].bodyStream
        fresh == [w EXCEPT !.reqs[r].isStreaming = stream,
                           !.reqs[r].bodyStream = stream,
                           !.reqs[r].mutations = <<>>,
                           !.reqs[r].mutatorRuns = @ + 1]
        h == gcpSelectedKey(w.keys, w.reqs[r].body.model)
        got == [fresh EXCEPT !.keys = KeysAfterGet(w.keys, "gcp", h)]
    IN IF h = None THEN [fresh EXCEPT !.reqs[r].pc = "failed"]
       ELSE IF tokenMissing(w.keys[h])
       THEN [got EXCEPT !.reqs[r].signingKey = h, !.reqs[r].pc = "signing"]
       ELSE [got EXCEPT !.reqs[r] = gcpSend(@, h)]

\* refreshGcpAccessToken answers the suspended mutator
gcpResume(w, r, granted) ==
    LET h == w.reqs[r].signingKey
    IN IF ~granted
       THEN [w EXCEPT !.reqs[r].signingKey = None, !.reqs[r].pc = "failed"]
       ELSE [w EXCEPT !.keys[h] = withFreshToken(@),
                      !.reqs[r] = gcpSend(@, h)]

\* the models testKeyOrFail probes on a first check, in the order of `checks`
ProbeOrder ==
    <<"claude-3-haiku@20240307", "claude-3-sonnet@20240229",
      "claude-3-opus@20240229", "claude-3-5-sonnet@20240620">>

\* testKeyOrFail after its awaits: probe[m] is what invokeModel(m) returned
testKeyOrFail(k, isInitialCheck, probe) ==
    IF isInitialCheck
    THEN LET checks == [i \in 1..Len(ProbeOrder) |-> probe[ProbeOrder[i]]]
             sonnet == checks[1]
             haiku == checks[2]
             opus == checks[3]
             sonnet35 == checks[4]
             families ==
                 (IF sonnet \/ sonnet35 \/ haiku THEN {"gcp-claude"} ELSE {})
                 \cup (IF opus THEN {"gcp-claude-opus"} ELSE {})
         IN IF families = {} THEN update(k, [isDisabled |-> TRUE])
            ELSE update(k, [sonnetEnabled |-> sonnet,
                            haikuEnabled |-> haiku,
                            sonnet35Enabled |-> sonnet35,
                            modelFamilies |-> families])
    ELSE update(k, [lastChecked |-> now])

\* one GCP key is configured
GcpPool ==
    [h \in KeyIds |-> IF h = KeyOrder[1] THEN NewKey("gcp") ELSE NewKey(None)]

GcpRequest(model) ==
    [NewRequest("r1") EXCEPT
        !.headers = [n \in GcpHeaderNames |->
                        CASE n = "origin" -> "https://client.example"
                          [] n = "host" -> "proxy.example"
                          [] n = "content-type" -> "application/json"
                          [] OTHER -> Absent],
        !.body = [model |-> model],
        !.url = Url("/v1/messages")]

GcpClients == {"r1", "r2"}

\* the models each client asks for
GcpClientModels(r) ==
    IF r = "r1" THEN {"claude-3-sonnet@20240229", "claude-3-haiku@20240307"}
    ELSE {"claude-3-sonnet@20240229"}

InitGcp ==
    /\ now = 0
    /\ calls = 0
    /\ config = [checkKeys |-> TRUE, allowAwsLogging |-> FALSE]
    /\ keys = GcpPool
    /\ IdleRequests

\* a request passes the preprocessors and joins the queue
GcpArrive(r, model) ==
    /\ reqs[r].pc = "idle"
    /\ LET stamped == [World EXCEPT
                          !.reqs[r] = [GcpRequest(model) EXCEPT
                                          !.identity = "u1",
                                          !.preprocessorRuns = 1,
                                          !.startTime = now]]
       IN Becomes(enqueue(stamped, r, FALSE, 1).world)

\* the scheduler takes the request off the queue and starts its chain
GcpDispatch(r) ==
    /\ reqs[r].pc = "queued"
    /\ Becomes(gcpProceed(dequeue(World, r), r))

GcpTokenAnswer(r, granted) ==
    /\ reqs[r].pc = "signing"
    /\ Becomes(gcpResume(World, r, granted))

\* the checker starts testKeyOrFail(key): it either finds a usable token and
\* goes on to probe, or awaits a refresh
CheckStart(h) ==
    /\ checker.at = "idle"
    /\ keys[h].service = "gcp"
    /\ ~keys[h].isDisabled
    /\ checker' = [at |-> IF /\ keys[h].accessToken # ""
                             /\ keys[h].accessTokenExpiresAt >= now
                          THEN "probing" ELSE "refreshing",
                   hash |-> h,
                   isInitialCheck |-> keys[h].lastChecked = 0]
    /\ Called
    /\ UNCHANGED <<now, config, keys, reqs, queue, users, snapshot, waitStats,
                   handles>>

\* refreshGcpAccessToken answers the checker
CheckTokenAnswer(granted) ==
    /\ checker.at = "refreshing"
    /\ IF granted
       THEN /\ keys' = [keys EXCEPT ![checker.hash] = withFreshToken(@)]
            /\ checker' = [checker EXCEPT !.at = "probing"]
       ELSE /\ keys' = keys
            /\ checker' = NoCheck
    /\ UNCHANGED <<now, config, calls, reqs, queue, users, snapshot,
                   waitStats, handles>>

\* the probes have answered
CheckProbesAnswer(probe) ==
    /\ checker.at = "probing"
    /\ keys' = [keys EXCEPT ![checker.hash] =
                   testKeyOrFail(@, checker.isInitialCheck, probe)]
    /\ checker' = NoCheck
    /\ UNCHANGED <<now, config, calls, reqs, queue, users, snapshot,
                   waitStats, handles>>

\* what the probes of a check may answer: every model, none, or one model
Probes ==
    { [m \in GcpModels |-> m \in granted] :
        granted \in {GcpModels, {}, {"claude-3-haiku@20240307"},
                     {"claude-3-sonnet@20240229"}} }

\* time passes until the tokens granted so far have expired
GcpElapse ==
    /\ now = 0
    /\ now' = now + 1000
    /\ UNCHANGED <<config, keys, calls, reqVars>>

NextGcp ==
    \/ \E r \in GcpClients : \E model \in GcpClientModels(r) :
          GcpArrive(r, model)
    \/ \E r \in GcpClients : GcpDispatch(r)
    \/ \E r \in GcpClients : \E granted \in BOOLEAN : GcpTokenAnswer(r, granted)
    \/ \E h \in KeyIds : CheckStart(h)
    \/ \E granted \in BOOLEAN : CheckTokenAnswer(granted)
    \/ \E probe \in Probes : CheckProbesAnswer(probe)
    \/ GcpElapse

SpecGcp == InitGcp /\ [][NextGcp]_vars

\* the refreshGcpAccessToken calls for key h that have not answered yet
RefreshesInFlight(h) ==
    Cardinality({r \in GcpClients :
                    reqs[r].pc = "signing" /\ reqs[r].signingKey = h})
        + (IF checker.at = "refreshing" /\ checker.hash = h THEN 1 ELSE 0)

\* C31: for any one GCP key, at most one access-token refresh is in flight
\* at any time.
C31_OneRefreshInFlight ==
    \A h \in KeyIds : RefreshesInFlight(h) <= 1

\* C39: after a GCP key's first check, sonnetEnabled is true iff the Claude 3
\* Sonnet probe succeeded, haikuEnabled is true iff the Claude 3 Haiku probe
\* succeeded, and sonnet35Enabled is true iff the Claude 3.5 Sonnet probe
\* succeeded.
C39_FlagsReflectOwnProbe ==
    \A h \in KeyIds : \A probe \in [GcpModels -> BOOLEAN] :
        keys[h].service = "gcp" =>
            LET checked == testKeyOrFail(keys[h], TRUE, probe)
            IN /\ checked.sonnetEnabled = probe["claude-3-sonnet@20240229"]
               /\ checked.haikuEnabled = probe["claude-3-haiku@20240307"]
               /\ checked.sonnet35Enabled
                      = probe["claude-3-5-sonnet@20240620"]

\* what the first check does set when some probe succeeded: the Sonnet and
\* Haiku flags hold each other's probe
FlagsHoldSwappedProbes ==
    \A h \in KeyIds : \A probe \in [GcpModels -> BOOLEAN] :
        (/\ keys[h].service = "gcp"
         /\ \E m \in GcpModels : probe[m])
            => LET checked == testKeyOrFail(keys[h], TRUE, probe)
               IN /\ checked.sonnetEnabled = probe["claude-3-haiku@20240307"]
                  /\ checked.haikuEnabled = probe["claude-3-sonnet@20240229"]
                  /\ checked.sonnet35Enabled
                         = probe["claude-3-5-sonnet@20240620"]

(***************************************************************************)
(* SpecClean: the queue under cleanQueue(), which runs every 20 seconds.   *)
(* The clock moves in steps of two and a half minutes.  A queued request's *)
(* response has not ended (enqueue refuses such a request), so             *)
(* killQueuedRequest sends the error; ending the response raises 'close',  *)
(* which runs the handler enqueue() bound, when one is bound.              *)
(***************************************************************************)
MaxCleanSteps == 3

\* 5 * 60 * 1000
STALL_LIMIT == 300000

\* the step of the clock in SpecClean
CLEAN_STEP == STALL_LIMIT \div 2

WAIT_SAMPLE_LIMIT == 300000

\* faulty variant: a request that came back for a retry is never stalled
cleanQueueSparingRetries(w) ==
    LET Old(r) == /\ now - w.reqs[r].startTime > STALL_LIMIT
                  /\ w.reqs[r].retryCount = 0
        oldRequests == SelectSeq(w.queue, Old)
    IN [w EXCEPT !.queue = SelectSeq(@, LAMBDA r : ~Old(r)),
                 !.reqs = [r \in Reqs |->
                              IF InQueue(oldRequests, r)
                              THEN [w.reqs[r] EXCEPT !.pc = "killed",
                                                     !.heartbeatInterval = FALSE]
                              ELSE w.reqs[r]]]

killQueuedRequest(w, r) ==
    LET sent == [w EXCEPT !.reqs[r].headersSent = TRUE,
                          !.reqs[r].pc = "killed"]
    IN IF w.reqs[r].onAborted THEN removeFromQueue(sent, r) ELSE sent

RECURSIVE KillEach(_, _)
\* oldRequests.forEach((req) => killQueuedRequest(req))
KillEach(w, oldRequests) ==
    IF oldRequests = <<>> THEN w
    ELSE KillEach(killQueuedRequest(w, Head(oldRequests)), Tail(oldRequests))

\* waitTimes.findIndex((waitTime) => now - waitTime.end > 300 * 1000), counted
\* from 1; 0 when there is none
findOldSample(waitTimes) ==
    LET old == {i \in 1..Len(waitTimes) :
                   now - waitTimes[i].end > WAIT_SAMPLE_LIMIT}
    IN IF old = {} THEN 0 ELSE CHOOSE i \in old : \A j \in old : i <= j

cleanQueue(w) ==
    LET Old(r) == now - w.reqs[r].startTime > STALL_LIMIT
        oldRequests == SelectSeq(w.queue, Old)
        killed == KillEach(w, oldRequests)
        index == findOldSample(w.waitTimes)
    IN [killed EXCEPT !.waitTimes = SubSeq(@, index + 1, Len(@))]

\* the timer fires: setTimeout(cleanQueue, 20 * 1000)
CleanQueue ==
    LET w == cleanQueue(World)
    IN Becomes(w)

ElapseClean ==
    /\ now + CLEAN_STEP <= MaxCleanSteps * CLEAN_STEP
    /\ now' = now + CLEAN_STEP
    /\ UNCHANGED <<config, keys, calls, reqVars>>

Waiters == {"r1", "r2"}

NextClean ==
    \/ \E r \in Waiters : \E identity \in IdentitiesOf(r) :
          \E stream \in StreamOptions(r) : Arrive(r, identity, stream, FALSE, 1)
    \/ Tick
    \/ \E r \in Waiters : \E headers \in UpstreamHeaders :
          AnswerWithinRetries(r, 200, ErrorBody("", "", "", "", ""),
                              headers, 1)
    \/ \E r \in Waiters : \E headers \in UpstreamHeaders :
          AnswerWithinRetries(r, 429, RateLimitBody, headers, 1)
    \/ CleanQueue
    \/ ElapseClean

SpecClean == Init /\ [][NextClean]_vars

C36_PruneKeepsExactlyYoungSamples ==
    LET Young(wait) == ~(now - wait.end > WAIT_SAMPLE_LIMIT)
    IN cleanQueue(World).waitTimes = SelectSeq(waitStats.waitTimes, Young)

\* what the pass does prune: the samples up to and including the first one
\* that is older than 5 minutes, whatever their age, and nothing after it
PruneCutsAtFirstOldSample ==
    LET index == findOldSample(waitStats.waitTimes)
        kept == cleanQueue(World).waitTimes
    IN /\ Len(kept) = Len(waitStats.waitTimes) - index
       /\ \A i \in 1..Len(kept) : kept[i] = waitStats.waitTimes[index + i]

heartbeat(w, r, written) ==
    LET q == w.reqs[r]
    IN IF q.isBufferFull
       THEN LET counted == [w EXCEPT !.reqs[r].bufferFullCount = @ + 1,
                                     !.reqs[r].missedInARow = @ + 1]
            IN IF counted.reqs[r].bufferFullCount >= 3
               THEN [removeFromQueue(counted, r) EXCEPT
                        !.reqs[r].destroyed = TRUE,
                        !.reqs[r].pc = "unresponsive"]
               ELSE counted
       ELSE IF ~written THEN [w EXCEPT !.reqs[r].isBufferFull = TRUE]
       ELSE w

\* res.once("drain", () => (isBufferFull = false))
onDrain(w, r) ==
    [w EXCEPT !.reqs[r].isBufferFull = FALSE, !.reqs[r].missedInARow = 0]

Heartbeat(r, written) ==
    /\ reqs[r].pc = "queued"
    /\ reqs[r].heartbeatInterval
    /\ Becomes(heartbeat(World, r, written))

HeartbeatDrain(r) ==
    /\ reqs[r].pc = "queued"
    /\ reqs[r].isBufferFull
    /\ Becomes(onDrain(World, r))

NextBeat ==
    \/ \E r \in Waiters : \E identity \in IdentitiesOf(r) :
          Arrive(r, identity, TRUE, FALSE, 1)
    \/ \E r \in Waiters : \E written \in BOOLEAN : Heartbeat(r, written)
    \/ \E r \in Waiters : HeartbeatDrain(r)
    \/ Tick
    \/ \E r \in Waiters : \E headers \in UpstreamHeaders :
          AnswerWithinRetries(r, 429, RateLimitBody, headers, 1)

SpecBeat == Init /\ [][NextBeat]_vars

\* C34: while a streaming request waits in the queue, the heartbeat writer
\* destroys its connection exactly when three consecutive heartbeats were
\* missed because the socket buffer was still full; misses separated by a
\* drain do not add up to the three strikes.
C34_DestroyedAfterThreeInARow ==
    \A r \in Reqs :
        /\ reqs[r].pc = "unresponsive" => reqs[r].missedInARow >= 3
        /\ (reqs[r].pc = "queued" /\ reqs[r].heartbeatInterval)
               => reqs[r].missedInARow < 3

\* what the writer does count: every heartbeat it skipped since the request
\* joined the queue, drained or not
DestroyedAfterThreeInAll ==
    \A r \in Reqs :
        /\ reqs[r].pc = "unresponsive" => reqs[r].bufferFullCount = 3
        /\ (reqs[r].pc = "queued" /\ reqs[r].heartbeatInterval)
               => reqs[r].bufferFullCount < 3

(***************************************************************************)
(* The estimate of a wait-time tick (SpecWait)                             *)
(***************************************************************************)
\* C35: after each wait-time tick, estimate[family] equals
\* (historicalEma[family] + currentEma[family]) / 2, computed from the two
\* EMA values as updated in that same tick.
C35_EstimateIsMeanOfUpdatedEmas ==
    waitStats.nextEstimate > WAIT_TIME_INTERVAL
        => \A family \in FamilyNames :
              2 * waitStats.estimates[family]
                  = waitStats.historicalEmas[family]
                    + waitStats.currentEmas[family]

\* what a tick does store: the mean of the two EMA values as they were
\* before the tick updated them
EstimateIsMeanOfPreviousEmas ==
    \A family \in FamilyNames :
        2 * estimateWaitTimes(waitStats, World, now).estimates[family]
            = waitStats.historicalEmas[family] + waitStats.currentEmas[family]

(***************************************************************************)
(* SpecStream: streamed responses that fail mid-flight, with a retryable   *)
(* error or with any other error.                                          *)
(***************************************************************************)
StreamFailures == {"stream-retryable", "stream-failed"}

StreamFails(r, outcome, hasEvents) ==
    /\ reqs[r].pc = "inflight"
    /\ reqs[r].isStreaming
    /\ outcome = "stream-retryable" => reqs[r].retryCount < MaxRetries
    /\ \E headers \in UpstreamHeaders :
          Becomes(onProxyRes(World, r, outcome, headers, hasEvents, 1))

NextStream ==
    \/ \E r \in Waiters : \E identity \in IdentitiesOf(r) :
          Arrive(r, identity, TRUE, FALSE, 1)
    \/ Tick
    \/ \E r \in Waiters : \E outcome \in StreamFailures :
          \E hasEvents \in BOOLEAN : StreamFails(r, outcome, hasEvents)
    \/ \E r \in Waiters : \E headers \in UpstreamHeaders :
          Respond(r, "ok", headers, TRUE, 1)
    \/ \E r \in Waiters : Close(r)
    \/ Elapse

SpecStream == Init /\ [][NextStream]_vars

\* the post-stream middleware ran for r between the worlds w and after
Accounted(w, after, r) ==
    /\ after.reqs[r].usageCount = w.reqs[r].usageCount + 1
    /\ Len(after.waitTimes) = Len(w.waitTimes) + 1

\* C37: when a streamed response fails mid-flight, post-stream accounting
\* (usage accounting, wait-time tracking) runs if and only if at least one
\* event had been aggregated; with no event the post-stream middleware does
\* not run.
C37_AccountedIffEvents ==
    \A r \in Reqs : \A outcome \in StreamFailures :
      \A hasEvents \in BOOLEAN : \A headers \in UpstreamHeaders :
        (reqs[r].pc = "inflight" /\ reqs[r].isStreaming)
            => LET after == onProxyRes(World, r, outcome, headers,
                                       hasEvents, 1)
               IN /\ Accounted(World, after, r) <=> hasEvents
                  /\ ~hasEvents =>
                        /\ after.reqs[r].usageCount = reqs[r].usageCount
                        /\ after.waitTimes = waitStats.waitTimes

\* what holds: without events nothing is accounted; with events the stream
\* is accounted unless the retry's re-enqueue threw
AccountedIffEventsUnlessReenqueueThrew ==
    \A r \in Reqs : \A outcome \in StreamFailures :
      \A hasEvents \in BOOLEAN : \A headers \in UpstreamHeaders :
        (reqs[r].pc = "inflight" /\ reqs[r].isStreaming)
            => LET after == onProxyRes(World, r, outcome, headers,
                                       hasEvents, 1)
                   threw == /\ outcome = "stream-retryable"
                            /\ after.reqs[r].pc = "failed"
               IN /\ Accounted(World, after, r) <=> (hasEvents /\ ~threw)
                  /\ ~Accounted(World, after, r) =>
                        /\ after.reqs[r].usageCount = reqs[r].usageCount
                        /\ after.waitTimes = waitStats.waitTimes

(***************************************************************************)
(* SpecQuota: the user store's token counts and the quota check.  users    *)
(* maps a user token to the user's type, tokenCounts and tokenLimits.      *)
(***************************************************************************)
MaxTokens == 3

QuotaLimits == {0, 2, 3}
QuotaRequests == {<<"gpt-4", "openai">>,
                  <<"anthropic.claude-3-5-sonnet-20240620-v1:0",
                    "anthropic-chat">>}
QuotaFamilies == {"gpt4", "aws-claude"}
Requested == 0..2

getModelFamilyForQuotaUsage(model, api) ==
    IF model \in AwsModels THEN getAwsBedrockModelFamily(model)
    ELSE CASE api = "openai" -> getOpenAIModelFamily(model)
           [] api = "anthropic-chat" -> getClaudeModelFamily(model)
           [] api = "mistral-ai" -> getMistralAIModelFamily(model)

\* faulty variant: a request that reaches the limit exactly is let through
hasAvailableQuotaUpToLimit(us, userToken, model, api, requested) ==
    IF userToken \notin DOMAIN us THEN FALSE
    ELSE IF us[userToken].type = "special" THEN TRUE
    ELSE LET modelFamily == getModelFamilyForQuotaUsage(model, api)
             tokenLimit == us[userToken].tokenLimits[modelFamily]
         IN IF tokenLimit = 0 THEN TRUE
            ELSE us[userToken].tokenCounts[modelFamily] + requested
                    <= tokenLimit

hasAvailableQuota(us, userToken, model, api, requested) ==
    IF userToken \notin DOMAIN us THEN FALSE
    ELSE IF us[userToken].type = "special" THEN TRUE
    ELSE LET modelFamily == getModelFamilyForQuotaUsage(model, api)
             tokenLimit == us[userToken].tokenLimits[modelFamily]
         IN IF tokenLimit = 0 THEN TRUE
            ELSE LET tokensConsumed ==
                         us[userToken].tokenCounts[modelFamily] + requested
                 IN tokensConsumed < tokenLimit

incrementTokenCount(us, token, model, api, consumption) ==
    IF token \notin DOMAIN us THEN us
    ELSE LET modelFamily == getModelFamilyForQuotaUsage(model, api)
         IN [us EXCEPT ![token].tokenCounts[modelFamily] = @ + consumption]

resetUsage(us, token) ==
    IF token \notin DOMAIN us THEN us
    ELSE [us EXCEPT ![token].tokenCounts = [f \in DOMAIN @ |-> 0]]

\* createUser gives a user the configured tokenQuota as tokenLimits; u2 has
\* been made a special user
InitQuota ==
    /\ now = 0
    /\ calls = 0
    /\ config = [checkKeys |-> FALSE, allowAwsLogging |-> FALSE]
    /\ keys = [h \in KeyIds |-> NewKey(None)]
    /\ waitStats = NoWaitStats
    /\ handles = NoHandle
    /\ checker = NoCheck
    /\ reqs = [r \in Reqs |-> NewRequest(r)]
    /\ queue = <<>>
    /\ snapshot = Content(NewRequest("r1"))
    /\ \E tokenQuota \in [QuotaFamilies -> QuotaLimits] :
          users = [u \in Identities |->
                      [type |-> IF u = "u2" THEN "special" ELSE "normal",
                       tokenCounts |-> [f \in QuotaFamilies |-> 0],
                       tokenLimits |-> tokenQuota]]

QuotaUnchanged ==
    UNCHANGED <<now, config, keys, calls, reqs, queue, snapshot, waitStats,
                handles, checker>>

IncrementTokenCount(token, model, api, consumption) ==
    /\ users[token].tokenCounts[getModelFamilyForQuotaUsage(model, api)]
           + consumption <= MaxTokens
    /\ users' = incrementTokenCount(users, token, model, api, consumption)
    /\ QuotaUnchanged

ResetUsage(token) ==
    /\ users' = resetUsage(users, token)
    /\ QuotaUnchanged

NextQuota ==
    \/ \E token \in Identities : \E m \in QuotaRequests :
          \E consumption \in 1..2 :
             IncrementTokenCount(token, m[1], m[2], consumption)
    \/ \E token \in Identities : ResetUsage(token)

SpecQuota == InitQuota /\ [][NextQuota]_vars

\* C38: for a user with a quota on the request's model family, the quota
\* check denies the request if and only if the user's consumed tokens for
\* that family plus the requested tokens exceed the family quota
\* (consumed + requested > limit).
C38_DeniedIffOverLimit ==
    \A u \in DOMAIN users : \A m \in QuotaRequests : \A requested \in Requested :
        LET f == getModelFamilyForQuotaUsage(m[1], m[2])
        IN (users[u].type # "special" /\ users[u].tokenLimits[f] > 0)
              => (~hasAvailableQuota(users, u, m[1], m[2], requested)
                     <=> users[u].tokenCounts[f] + requested
                            > users[u].tokenLimits[f])

\* what holds: the check denies as soon as the sum reaches the limit, and
\* never denies a special user
DeniedIffAtOrOverLimit ==
    \A u \in DOMAIN users : \A m \in QuotaRequests : \A requested \in Requested :
        LET f == getModelFamilyForQuotaUsage(m[1], m[2])
        IN users[u].tokenLimits[f] > 0
              => (~hasAvailableQuota(users, u, m[1], m[2], requested)
                     <=> /\ users[u].type # "special"
                         /\ users[u].tokenCounts[f] + requested
                               >= users[u].tokenLimits[f])

(***************************************************************************)
(* recheck() of every provider (SpecFlags)                                 *)
(***************************************************************************)
\* C40: for every provider, recheck() resets lastChecked, isDisabled and
\* isRevoked on all of that provider's keys, so that a previously disabled
\* key is enabled again until the checker re-evaluates it.
C40_RecheckResetsEveryProvider ==
    \A h \in KeyIds :
        keys[h].service \in Providers
            => LET k == recheck(keys[h])
               IN /\ k.lastChecked = 0
                  /\ ~k.isDisabled
                  /\ ~k.isRevoked

\* what holds: the OpenAI, AWS and GCP providers reset the three fields of
\* every key; the Mistral and Google AI providers leave every key as it was
RecheckResetsWhereImplemented ==
    \A h \in KeyIds :
        keys[h].service \in Providers
            => LET k == recheck(keys[h])
               IN IF keys[h].service \in {"openai", "aws", "gcp"}
                  THEN /\ k.lastChecked = 0
                       /\ ~k.isDisabled
                       /\ ~k.isRevoked
                  ELSE k = keys[h]

====
